---- MODULE Spec2Model ----
(***************************************************************************)
(* Model of the AI-arena match engine (src/src/ai_arena/engine.py), the    *)
(* Game protocol it drives (src/src/ai_arena/game.py) and the built-in     *)
(* Tic-Tac-Toe rules (src/src/ai_arena/games/tictactoe.py).                *)
(*                                                                         *)
(* play_match is one sequential function; its program counter pc walks     *)
(* through the body of the for loop:                                       *)
(*   "loop"      top of an iteration of `for turn in range(1, max+1)`      *)
(*   "select"    inside agent.select_move (engine.py:95)                   *)
(*   "validate"  select_move has returned, `move` is bound (engine.py:98)  *)
(*   "pause"     blocked in input() of the prime-turn pause (engine.py:117)*)
(*   "done"      play_match has returned a MatchResult                     *)
(*   "raised"    an exception has left play_match                          *)
(* MoveRecord.ms is wall-clock time and is left out of the records.        *)
(* A MoveRecord note of None is written "" (no code of the repository      *)
(* writes an empty-string note).                                           *)
(*                                                                         *)
(* The module holds one specification per component; each leaves the       *)
(* variables of the other components at their idle values:                 *)
(*   Spec        play_match                     (engine.py)                *)
(*   ReplaySpec  replay_from_move_history / replay_from_log_payload        *)
(*               applied to bounded payloads    (replay.py)                *)
(*   WriteLogSpec  one _write_log call on a path, with a concurrent reader *)
(*               of that path                   (engine.py)                *)
(*   TransportSpec  one SubprocessAgent: construction, one select_move     *)
(*               call against a child that writes, falls silent or exits,  *)
(*               and close()          (agents/subprocess_agent.py)         *)
(*   TournamentSpec  run_tournament over a list of competitors, match by   *)
(*               match: agents built, play_match called, agents closed,    *)
(*               summary and scoreboard written        (tournament.py)     *)
(* Time in TransportSpec is counted in ticks; the steps of the calling     *)
(* thread take no time, time passes only while it is blocked.              *)
(***************************************************************************)
EXTENDS Integers, Sequences, FiniteSets, TLC

\* ---------------------------------------------------------------- bounds
MaxTurns == 10       \* max_turns ranges over -1..MaxTurns
MaxPile == 3         \* largest start / threshold of the counting game
MaxChoice == 2       \* an agent picks among the first MaxChoice legal moves
MaxHist == 3         \* longest move history handed to the replay functions
MaxChunks == 3       \* longest log document, in buffer-sized write() calls
MaxLines == 2        \* lines the child writes to its stdout during one call
TimeoutTicks == 3    \* timeout_s of the agent, in ticks
PollTicks == 2       \* the 0.25 s of selector.select, in ticks
GraceTicks == 2      \* the 1 s of proc.wait in close(), in ticks
MaxCloses == 2       \* calls of close() on one agent
StderrCap == 1       \* capacity of the stderr pipe, in chunks the child writes
MaxCompetitors == 3  \* competitors of a tournament
MaxRounds == 1       \* `rounds` of a tournament
PlanLen == 2         \* period of the verdicts the matches of a tournament end in

\* ------------------------------------------------------------- constants
None == -1           \* Python None in a PlayerId | None position
BadMove == 999       \* the literal of IllegalAgent in the engine tests

\* the max_turns arguments tried; range(1, max_turns + 1) is empty for <= 0
MaxTurnsArgs == (-1)..MaxTurns

Range(s) == {s[i] : i \in 1..Len(s)}

Min(a, b) == IF a <= b THEN a ELSE b

\* ------------------------------------------------------- engine.py 13-25
RECURSIVE _is_prime_loop(_, _)
_is_prime_loop(n, i) ==
  IF i * i > n THEN TRUE
  ELSE IF n % i = 0 \/ n % (i + 2) = 0 THEN FALSE
  ELSE _is_prime_loop(n, i + 6)

_is_prime(n) ==
  IF n <= 1 THEN FALSE
  ELSE IF n <= 3 THEN TRUE
  ELSE IF n % 2 = 0 \/ n % 3 = 0 THEN FALSE
  ELSE _is_prime_loop(n, 5)

\* ------------------------------------------------------------ game.py
\* Terminal(is_terminal, winner, reason)
Terminal(t, w, r) == [is_terminal |-> t, winner |-> w, reason |-> r]

\* --------------------------------------------------- games/tictactoe.py
lines == << <<0, 1, 2>>, <<3, 4, 5>>, <<6, 7, 8>>, <<0, 3, 6>>,
            <<1, 4, 7>>, <<2, 5, 8>>, <<0, 4, 8>>, <<2, 4, 6>> >>

\* board is a 9-tuple indexed 1..9; cell c of the source is board[c + 1]
LineHit(board, k) ==
  LET v == board[lines[k][1] + 1]
  IN  v # 0 /\ v = board[lines[k][2] + 1] /\ v = board[lines[k][3] + 1]

_winner(board) ==
  IF \E k \in 1..Len(lines) : LineHit(board, k)
  THEN LET k == CHOOSE j \in 1..Len(lines) :
                  LineHit(board, j) /\ \A i \in 1..(j - 1) : ~LineHit(board, i)
       IN  IF board[lines[k][1] + 1] = 1 THEN 0 ELSE 1
  ELSE None

ttt_initial_state == [board |-> [i \in 1..9 |-> 0]]

RECURSIVE EmptyCellsFrom(_, _)
EmptyCellsFrom(board, i) ==
  IF i > 8 THEN << >>
  ELSE (IF board[i + 1] = 0 THEN <<i>> ELSE << >>) \o EmptyCellsFrom(board, i + 1)

ttt_legal_moves(state, p) == EmptyCellsFrom(state.board, 0)

ttt_apply_raises(state, p, m) == ~(0 <= m /\ m < 9) \/ state.board[m + 1] # 0

ttt_apply_move(state, p, m) ==
  [board |-> [state.board EXCEPT ![m + 1] = IF p = 0 THEN 1 ELSE 2]]

ttt_terminal_nodraw(state) ==
  LET w == _winner(state.board)
  IN  IF w # None THEN Terminal(TRUE, w, "win")
      ELSE Terminal(FALSE, None, "")

ttt_terminal(state) ==
  LET w == _winner(state.board)
  IN  IF w # None THEN Terminal(TRUE, w, "win")
      ELSE IF \A i \in 1..9 : state.board[i] # 0 THEN Terminal(TRUE, None, "draw")
      ELSE Terminal(FALSE, None, "")

\* ----------------------------------------- game.py: the Game protocol
\* play_match accepts any object with the five Game methods.  Besides
\* Tic-Tac-Toe the engine is driven with a family of counting games: the
\* state is a pile, a move takes 1 or 2 from it, and the state is terminal
\* (with the game's fixed verdict) once the pile is at or below `cut`.
\* cut = -1 gives a game that is never rules-terminal and runs out of moves.
Verdicts == { [winner |-> 0, reason |-> "win"],
              [winner |-> 1, reason |-> "crown_captured"],
              [winner |-> None, reason |-> "turn_limit"] }

PileGames == { [name |-> "pile", start |-> s, cut |-> c, verdict |-> v] :
                 s \in 0..MaxPile, c \in (-1)..MaxPile, v \in Verdicts }

TicTacToe == [name |-> "tictactoe"]

Games == {TicTacToe} \cup PileGames

pile_legal_moves(state, p) ==
  (IF state.pile >= 1 THEN <<1>> ELSE << >>) \o
  (IF state.pile >= 2 THEN <<2>> ELSE << >>)

pile_terminal(g, state) ==
  IF state.pile <= g.cut THEN Terminal(TRUE, g.verdict.winner, g.verdict.reason)
  ELSE Terminal(FALSE, None, "")

initial_state(g) ==
  IF g.name = "tictactoe" THEN ttt_initial_state ELSE [pile |-> g.start]

legal_moves(g, state, p) ==
  IF g.name = "tictactoe" THEN ttt_legal_moves(state, p)
  ELSE pile_legal_moves(state, p)

apply_raises(g, state, p, m) ==
  IF g.name = "tictactoe" THEN ttt_apply_raises(state, p, m) ELSE FALSE

apply_move(g, state, p, m) ==
  IF g.name = "tictactoe" THEN ttt_apply_move(state, p, m)
  ELSE [pile |-> state.pile - m]

terminal(g, state) ==
  IF g.name = "tictactoe" THEN ttt_terminal(state) ELSE pile_terminal(g, state)

\* ------------------------------------------------------------ engine.py
MoveRecord(t, p, m, n) == [turn |-> t, player |-> p, move |-> m, note |-> n]

MatchResult(g, w, r, t, h) ==
  [game |-> g.name, winner |-> w, reason |-> r, turns |-> t, move_history |-> h]

NoResult == [game |-> "", winner |-> None, reason |-> "", turns |-> 0,
             move_history |-> << >>]

ExcTypes == {"RuntimeError", "TimeoutError"}

NoExc == [type |-> "", turn |-> 0, player |-> 0]

VARIABLES
  game,         \* argument: the rules object
  max_turns,    \* argument
  prime_pause,  \* argument
  log_path,     \* argument: TRUE iff a log path was given
  state,        \* local `state`
  history,      \* local `history`
  player,       \* local `player`
  turn,         \* loop variable `turn`
  legal,        \* local `legal` of the current iteration
  move,         \* local `move` of the current iteration
  pc,           \* position in play_match
  result,       \* the returned MatchResult (NoResult until pc = "done")
  exc,          \* the exception that left play_match (NoExc unless "raised")
  calls,        \* select_move invocations so far, in order
  legal_calls,  \* number of game.legal_moves invocations so far
  log           \* payloads handed to _write_log, in order

engine_vars == <<game, max_turns, prime_pause, log_path, state, history, player,
                 turn, legal, move, pc, result, exc, calls, legal_calls, log>>

args == <<game, max_turns, prime_pause, log_path>>

VARIABLES
  rp_game,      \* replay: argument `game`
  rp_payload,   \* replay: argument `payload` (its "result" object)
  rp_pc,        \* "input", "history_done", "payload_done" or "raised"
  rp_out        \* the Replay returned (NoReplay before)

replay_vars == <<rp_game, rp_payload, rp_pc, rp_out>>

VARIABLES
  wl_len,       \* _write_log: length of the serialized document, in chunks
  wl_file,      \* content of `path`: which document and how much of it
  wl_pc,        \* "start", "writing", "closed" or "failed"
  wl_seen       \* what a reader of `path` saw last

wlog_vars == <<wl_len, wl_file, wl_pc, wl_seen>>

\* file content: no file, or the first `have` chunks of a document of `of`
FileAbsent == [doc |-> "none", have |-> 0, of |-> 0]

FileHolds(d, k, n) == [doc |-> d, have |-> k, of |-> n]

WlogIdle ==
  /\ wl_len = 0
  /\ wl_file = FileAbsent
  /\ wl_pc = "idle"
  /\ wl_seen = FileAbsent

VARIABLES
  sa_cls,       \* "slots": SubprocessAgent as declared; "dict": an instance
                \* with a __dict__ (a subclass), which can hold _proc etc.
  sa_obj,       \* "none", "ok" (constructed) or "failed" (__post_init__ raised)
  sa_proc,      \* child: "none", "running", "exited" (by itself) or "killed"
  sa_stdin,     \* child's end of stdin: "open", "closed" (by the child), "gone"
  sa_pipe,      \* lines in the stdout pipe, not yet read by the agent
  sa_eof,       \* the child's stdout is closed
  sa_buf,       \* lines in the buffer of the agent's text reader self._stdout
  sa_out,       \* every line the child has written, in order
  sa_pc,        \* select_move: "idle", "loop", "select", "readline",
                \* "returned" or "raised"
  sa_ret,       \* what select_move returned or raised
  sa_sent,      \* turn messages written to the child's stdin
  sa_now,       \* clock
  sa_deadline,  \* local `deadline`
  sa_wait,      \* the time at which the current select() gives up
  sa_exit_at,   \* clock at which the child's stdout was closed, -1 before
  sa_signals,   \* signals the transport has sent to the child
  sa_sel_open,  \* self._sel is open
  sa_close_pc,  \* close(): "idle", "wait" (in proc.wait) or "done"
  sa_reaped,    \* the child's exit status has been collected (returncode set)
  sa_grace_end, \* the time at which proc.wait(timeout=1) gives up
  sa_closes,    \* calls of close() that have returned
  sa_first,     \* what the first call of close() left behind
  sa_err,       \* chunks in the stderr pipe, which nothing reads
  sa_stuck,     \* the child is blocked in a write to its full stderr pipe
  sa_close_exc, \* a call of close() has raised
  sa_stale      \* lines the child had written when the turn message was sent

sub_vars == <<sa_cls, sa_obj, sa_proc, sa_stdin, sa_pipe, sa_eof, sa_buf, sa_out,
              sa_pc, sa_ret, sa_sent, sa_now, sa_deadline, sa_wait, sa_exit_at,
              sa_signals, sa_sel_open, sa_close_pc, sa_reaped, sa_grace_end,
              sa_closes, sa_first, sa_err, sa_stuck, sa_close_exc, sa_stale>>

\* what close() keeps besides its position, and the child's stderr
close_vars == <<sa_reaped, sa_grace_end, sa_closes, sa_first, sa_close_exc>>

err_vars == <<sa_err, sa_stuck>>

NoFirst == [reaped |-> FALSE, sel_open |-> TRUE, set |-> FALSE]

NoRet == [kind |-> "none", move |-> None, type |-> ""]

SubIdle ==
  /\ sa_cls = "slots"
  /\ sa_obj = "none"
  /\ sa_proc = "none"
  /\ sa_stdin = "open"
  /\ sa_pipe = << >>
  /\ sa_eof = FALSE
  /\ sa_buf = << >>
  /\ sa_out = << >>
  /\ sa_pc = "idle"
  /\ sa_ret = NoRet
  /\ sa_sent = 0
  /\ sa_now = 0
  /\ sa_deadline = 0
  /\ sa_wait = 0
  /\ sa_exit_at = -1
  /\ sa_signals = << >>
  /\ sa_sel_open = FALSE
  /\ sa_close_pc = "idle"
  /\ sa_reaped = FALSE
  /\ sa_grace_end = 0
  /\ sa_closes = 0
  /\ sa_first = NoFirst
  /\ sa_err = 0
  /\ sa_stuck = FALSE
  /\ sa_close_exc = FALSE
  /\ sa_stale = 0

VARIABLES
  t_comps,     \* `competitors`: a sequence of [id, home_game, agent]
  t_rounds,    \* `rounds`
  t_swap,      \* `swap_starts`
  t_plan,      \* the winners play_match will name, match after match
  t_pc,        \* run_tournament: "idle", "start", "build0", "build1", "play",
               \* "close0", "close1", "record", "done" or "raised"
  t_pairs,     \* the list _pairings(competitors) the outer loop runs over
  t_pos,       \* the loop variables: pair, scenario, round and seating
  t_agent0,    \* `agent0`
  t_agent1,    \* `agent1`
  t_res,       \* `res`
  t_exc,       \* the exception on its way out: "", "construct", "agent", "close"
  t_matches,   \* `matches`
  t_sb,        \* `sb`
  t_made,      \* agent instances constructed so far
  t_live,      \* instances with a close() that has not been called
  t_calls,     \* the calls of play_match: game and the two agents, in order
  t_played     \* matches for which play_match has been called

tour_vars == <<t_comps, t_rounds, t_swap, t_plan, t_pc, t_pairs, t_pos, t_agent0, t_agent1,
               t_res, t_exc, t_matches, t_sb, t_made, t_live, t_calls, t_played>>

NoAgent == [n |-> 0, spec |-> [kind |-> "", cmd |-> 0], close |-> FALSE, match |-> 0]

NoPos == [pair |-> 0, scen |-> 0, r |-> 0, seat |-> 0]

TourIdle ==
  /\ t_comps = << >>
  /\ t_rounds = 0
  /\ t_swap = FALSE
  /\ t_plan = << >>
  /\ t_pc = "idle"
  /\ t_pairs = << >>
  /\ t_pos = NoPos
  /\ t_agent0 = NoAgent
  /\ t_agent1 = NoAgent
  /\ t_res = [game |-> 0, winner |-> None, reason |-> "", turns |-> 0]
  /\ t_exc = ""
  /\ t_matches = << >>
  /\ t_sb = << >>
  /\ t_made = 0
  /\ t_live = {}
  /\ t_calls = << >>
  /\ t_played = 0

VARIABLES
  lp_names,    \* the id strings: lp_names[k] is the k-th id in lexicographic order
  lp_comps,    \* `competitors`
  lp_rounds,   \* `rounds`
  lp_swap,     \* `swap_starts`
  lp_pc,       \* run_tournament with a log_dir: "idle", "start", "match", "done"
  lp_pairs,    \* the list _pairings(competitors) being walked
  lp_pos,      \* the loop variables
  lp_files     \* the log_path of every match played so far, in order

lp_vars == <<lp_names, lp_comps, lp_rounds, lp_swap, lp_pc, lp_pairs, lp_pos, lp_files>>

LogPathIdle ==
  /\ lp_names = << >>
  /\ lp_comps = << >>
  /\ lp_rounds = 0
  /\ lp_swap = FALSE
  /\ lp_pc = "idle"
  /\ lp_pairs = << >>
  /\ lp_pos = NoPos
  /\ lp_files = << >>

VARIABLES
  gu_plan,     \* what the agents decide: the decision of turn k is gu_plan[k]
               \* (with period DecisionLen), in play_match and in the GUI alike
  gu_mode,     \* "live" (_replay_mode false), "replay", "closed" (destroyed),
               \* "idle" outside the GUI
  gu_session,  \* matches and logs loaded after the one the window opened with
  gu_state,    \* self._states[-1]
  gu_moves,    \* self._moves
  gu_result,   \* self._result
  gu_override, \* self._result_override
  gu_busy,     \* self._busy
  gu_worker,   \* the thread of _step_live and its callback `done`
  gu_closed    \* the agents close() has been called on, as <<session, seat>>

gui_vars == <<gu_plan, gu_mode, gu_session, gu_state, gu_moves, gu_result,
              gu_override, gu_busy, gu_worker, gu_closed>>

\* None in a Terminal | None position
NoVerdict == Terminal(FALSE, None, "")

NoOut == [kind |-> "none", move |-> None, type |-> ""]

NoWorker == [phase |-> "none", session |-> 0, player |-> 0, turn |-> 0,
             legal |-> << >>, out |-> NoOut]

GuiIdle ==
  /\ gu_plan = << >>
  /\ gu_mode = "idle"
  /\ gu_session = 0
  /\ gu_state = << >>
  /\ gu_moves = << >>
  /\ gu_result = NoVerdict
  /\ gu_override = NoVerdict
  /\ gu_busy = FALSE
  /\ gu_worker = NoWorker
  /\ gu_closed = {}

VARIABLES
  ca_cfg,      \* self._agents_cfg: the kind of agent of each player
  ca_mode,     \* "idle" outside the window, "play", "closed" (destroyed)
  ca_ply,      \* self._state["ply"]
  ca_over,     \* self._game_over
  ca_waiting,  \* self._human_waiting
  ca_legal,    \* self._legal_moves is not empty
  ca_gen,      \* self._generation
  ca_closing,  \* self._closing
  ca_games,    \* presses of New Game so far
  ca_timers,   \* pending after(300, _do_random_move) callbacks, each with the
               \* generation it was scheduled in
  ca_workers,  \* AI threads and their callbacks: [gen, phase]
  ca_last      \* of the last move a callback applied: the generation the
               \* callback was scheduled in and the generation it was applied in

cal_vars == <<ca_cfg, ca_mode, ca_ply, ca_over, ca_waiting, ca_legal, ca_gen,
              ca_closing, ca_games, ca_timers, ca_workers, ca_last>>

NoApplied == [origin |-> 0, at |-> 0]

CalderaIdle ==
  /\ ca_cfg = << >>
  /\ ca_mode = "idle"
  /\ ca_ply = 0
  /\ ca_over = FALSE
  /\ ca_waiting = FALSE
  /\ ca_legal = FALSE
  /\ ca_gen = 0
  /\ ca_closing = FALSE
  /\ ca_games = 0
  /\ ca_timers = << >>
  /\ ca_workers = << >>
  /\ ca_last = NoApplied

\* the variables of the components added last
ext_vars == <<lp_vars, gui_vars, cal_vars>>

ExtIdle == LogPathIdle /\ GuiIdle /\ CalderaIdle

\* the variables outside play_match
others == <<replay_vars, wlog_vars, sub_vars, tour_vars, ext_vars>>

vars == <<engine_vars, others>>

NoReplay == [ok |-> FALSE, states |-> << >>, terminal |-> Terminal(FALSE, None, "")]

ReplayIdle ==
  /\ rp_game = TicTacToe
  /\ rp_payload = << >>
  /\ rp_pc = "idle"
  /\ rp_out = NoReplay

\* engine.py 62-64 and the first evaluation of range(1, max_turns + 1)
Init ==
  /\ game \in Games
  /\ max_turns \in MaxTurnsArgs
  /\ prime_pause \in BOOLEAN
  /\ log_path \in BOOLEAN
  /\ state = initial_state(game)
  /\ history = << >>
  /\ player = 0
  /\ turn = 1
  /\ legal = << >>
  /\ move = None
  /\ pc = "loop"
  /\ result = NoResult
  /\ exc = NoExc
  /\ calls = << >>
  /\ legal_calls = 0
  /\ log = << >>
  /\ ExtIdle
  /\ ReplayIdle
  /\ WlogIdle
  /\ SubIdle
  /\ TourIdle

\* `if log_path: _write_log(...); return result`
Return(res) ==
  /\ pc' = "done"
  /\ result' = res
  /\ log' = IF log_path THEN Append(log, [result |-> res, final_state |-> state])
            ELSE log

\* what an agent may hand back: one of the first MaxChoice legal moves, or
\* a value that is not (always) legal
AgentMoves(lg) == {lg[i] : i \in 1..Min(MaxChoice, Len(lg))} \cup {0, BadMove}

\* engine.py 66 (range exhausted) and 123-126
MaxTurnsResult_turn == MatchResult(game, None, "max_turns", turn, history)

MaxTurnsResult == MatchResult(game, None, "max_turns", max_turns, history)

LoopExit ==
  /\ pc = "loop"
  /\ turn > max_turns
  /\ Return(MaxTurnsResult)
  /\ UNCHANGED <<args, others, state, history, player, turn, legal, move, exc, calls,
                 legal_calls>>

\* engine.py 67-78
TerminalResult_turn ==
  LET t == terminal(game, state)
  IN  MatchResult(game, t.winner, t.reason, turn, history)

TerminalResult ==
  LET t == terminal(game, state)
  IN  MatchResult(game, t.winner, t.reason, turn - 1, history)

RulesTerminal ==
  /\ pc = "loop"
  /\ turn <= max_turns
  /\ terminal(game, state).is_terminal
  /\ Return(TerminalResult)
  /\ UNCHANGED <<args, others, state, history, player, turn, legal, move, exc, calls,
                 legal_calls>>

\* engine.py 80-92
NoLegalMovesResult_swapped ==
  MatchResult(game, player, "no_legal_moves", turn - 1, history)

NoLegalMovesResult ==
  MatchResult(game, 1 - player, "no_legal_moves", turn - 1, history)

NoLegalMoves ==
  /\ pc = "loop"
  /\ turn <= max_turns
  /\ ~terminal(game, state).is_terminal
  /\ legal_moves(game, state, player) = << >>
  /\ legal' = << >>
  /\ legal_calls' = legal_calls + 1
  /\ Return(NoLegalMovesResult)
  /\ UNCHANGED <<args, others, state, history, player, turn, move, exc, calls>>

\* engine.py 80: `agent0 if player == 0 else agent1`
seat_agent_swapped(p) == IF p = 0 THEN 1 ELSE 0

seat_agent(p) == IF p = 0 THEN 0 ELSE 1

\* The agents of the match: agent0 is an in-process agent without a close(),
\* agent1 an instance of SubprocessAgent.  play_match never inspects the type
\* of an agent.
agent_kind(a) == IF a = 0 THEN "inprocess" ELSE "subprocess"

\* engine.py 80-82, 94-95: the agent of the seat is entered
CallAgent ==
  /\ pc = "loop"
  /\ turn <= max_turns
  /\ ~terminal(game, state).is_terminal
  /\ legal_moves(game, state, player) # << >>
  /\ legal' = legal_moves(game, state, player)
  /\ legal_calls' = legal_calls + 1
  /\ calls' = Append(calls, [turn |-> turn, agent |-> seat_agent(player),
                             state |-> state, player |-> player, legal |-> legal'])
  /\ pc' = "select"
  /\ UNCHANGED <<args, others, state, history, player, turn, move, result, exc, log>>

\* engine.py 95: select_move returns a value
AgentReturns(m) ==
  /\ pc = "select"
  /\ move' = m
  /\ pc' = "validate"
  /\ UNCHANGED <<args, others, state, history, player, turn, legal, result, exc, calls,
                 legal_calls, log>>

\* engine.py 95: select_move raises; nothing in play_match catches it
AgentRaises(e) ==
  /\ pc = "select"
  /\ exc' = [type |-> e, turn |-> turn, player |-> player]
  /\ pc' = "raised"
  /\ UNCHANGED <<args, others, state, history, player, turn, legal, move, result, calls,
                 legal_calls, log>>

\* engine.py 98: `move not in legal` is this test negated
is_legal_any(m, lg) == TRUE

is_legal(m, lg) == m \in Range(lg)

\* engine.py 98-109
IllegalResult_swapped(h) == MatchResult(game, player, "illegal_move", turn, h)

IllegalResult_reason(h) == MatchResult(game, 1 - player, "forfeit", turn, h)

IllegalResult(h) == MatchResult(game, 1 - player, "illegal_move", turn, h)

IllegalMove ==
  /\ pc = "validate"
  /\ ~is_legal(move, legal)
  /\ history' = Append(history, MoveRecord(turn, player, move, "illegal_move"))
  /\ Return(IllegalResult(history'))
  /\ UNCHANGED <<args, others, state, player, turn, legal, move, exc, calls, legal_calls>>

\* engine.py 121
next_player_same(p) == p

next_player(p) == 1 - p

\* engine.py 111-121
ApplyMove ==
  /\ pc = "validate"
  /\ is_legal(move, legal)
  /\ IF apply_raises(game, state, player, move)
     THEN /\ exc' = [type |-> "ValueError", turn |-> turn, player |-> player]
          /\ pc' = "raised"
          /\ UNCHANGED <<state, history, player, turn>>
     ELSE /\ state' = apply_move(game, state, player, move)
          /\ history' = Append(history, MoveRecord(turn, player, move, ""))
          /\ IF prime_pause /\ _is_prime(turn)
             THEN pc' = "pause" /\ UNCHANGED <<player, turn>>
             ELSE pc' = "loop" /\ player' = next_player(player) /\ turn' = turn + 1
          /\ exc' = exc
  /\ UNCHANGED <<args, others, legal, move, result, calls, legal_calls, log>>

\* engine.py 116-121: input() returns or raises EOFError
OperatorContinue ==
  /\ pc = "pause"
  /\ pc' = "loop"
  /\ player' = next_player(player)
  /\ turn' = turn + 1
  /\ UNCHANGED <<args, others, state, history, legal, move, result, exc, calls,
                 legal_calls, log>>

Next ==
  \/ LoopExit
  \/ RulesTerminal
  \/ NoLegalMoves
  \/ CallAgent
  \/ \E m \in AgentMoves(legal) : AgentReturns(m)
  \/ \E e \in ExcTypes : AgentRaises(e)
  \/ IllegalMove
  \/ ApplyMove
  \/ OperatorContinue

Spec == Init /\ [][Next]_vars

TypeOK ==
  /\ pc \in {"loop", "select", "validate", "pause", "done", "raised"}
  /\ player \in {0, 1}
  /\ turn >= 1

\* ------------------------------------------------------------ properties
\* S_i of a move history: the initial state with the first i records applied,
\* a record with a note leaving the state as it is
RECURSIVE StateAt(_, _, _)
StateAt(g, h, i) ==
  IF i = 0 THEN initial_state(g)
  ELSE LET r == h[i]
           s == StateAt(g, h, i - 1)
       IN  IF r.note = "" THEN apply_move(g, s, r.player, r.move) ELSE s

Last(h) == h[Len(h)]

\* ------------------------------------------------------------ replay.py
\* JSON values of the payload fields the replay code type-tests
JStr(x) == [t |-> "str", s |-> x, n |-> 0]

JInt(x) == [t |-> "int", s |-> "", n |-> x]

JNull == [t |-> "null", s |-> "", n |-> 0]

JMissing == [t |-> "missing", s |-> "", n |-> 0]

\* replay.py 50-59: the loop over the moves; ok = FALSE when apply_move raised
RECURSIVE replay_states_nobreak(_, _, _, _)
replay_states_nobreak(g, mh, i, states) ==
  IF i > Len(mh) THEN [ok |-> TRUE, states |-> states]
  ELSE IF mh[i].note = ""
       THEN IF apply_raises(g, Last(states), mh[i].player, mh[i].move)
            THEN [ok |-> FALSE, states |-> states]
            ELSE replay_states_nobreak(g, mh, i + 1,
                   Append(states, apply_move(g, Last(states), mh[i].player, mh[i].move)))
       ELSE replay_states_nobreak(g, mh, i + 1, Append(states, Last(states)))

RECURSIVE replay_states(_, _, _, _)
replay_states(g, mh, i, states) ==
  IF i > Len(mh) THEN [ok |-> TRUE, states |-> states]
  ELSE IF mh[i].note = ""
       THEN IF apply_raises(g, Last(states), mh[i].player, mh[i].move)
            THEN [ok |-> FALSE, states |-> states]
            ELSE replay_states(g, mh, i + 1,
                   Append(states, apply_move(g, Last(states), mh[i].player, mh[i].move)))
       ELSE [ok |-> TRUE, states |-> Append(states, Last(states))]

\* replay.py 37-62
replay_from_move_history(g, mh) ==
  LET r == replay_states(g, mh, 1, <<initial_state(g)>>)
  IN  IF r.ok
      THEN [ok |-> TRUE, states |-> r.states, terminal |-> terminal(g, Last(r.states))]
      ELSE [ok |-> FALSE, states |-> r.states, terminal |-> Terminal(FALSE, None, "")]

\* replay.py 81-82: res.get("reason", "") and res.get("winner", None)
get_reason(res) == IF res.reason.t = "missing" THEN JStr("") ELSE res.reason

get_winner(res) == IF res.winner.t = "missing" THEN JNull ELSE res.winner

\* replay.py 84-90
engine_winner_raw(winner) == IF winner.t = "int" THEN winner.n ELSE None

engine_winner(winner) ==
  IF winner.t = "null" THEN None
  ELSE IF winner.t = "int" /\ winner.n \in {0, 1} THEN winner.n
  ELSE None

\* replay.py 65-93; res is payload["result"]
replay_from_log_payload(g, res) ==
  LET r == replay_from_move_history(g, res.move_history)
      reason == get_reason(res)
      winner == get_winner(res)
  IN  IF r.ok /\ ~r.terminal.is_terminal /\ reason.t = "str" /\ reason.s # ""
      THEN [ok |-> TRUE, states |-> r.states,
            terminal |-> Terminal(TRUE, engine_winner(winner), reason.s)]
      ELSE r

\* engine.py 131-140 and replay.py 33-34: the "result" object of the log as
\* json.dumps / json.loads hand it to the replay code
result_json(res) ==
  [winner |-> IF res.winner = None THEN JNull ELSE JInt(res.winner),
   reason |-> JStr(res.reason),
   move_history |-> res.move_history]

\* the payloads the replay functions are applied to
ReplayGames == { TicTacToe,
                 [name |-> "pile", start |-> 2, cut |-> 0,
                  verdict |-> [winner |-> 0, reason |-> "win"]] }

ReplayRecords == { [player |-> p, move |-> m, note |-> n] :
                     p \in {0, 1}, m \in {0, 1}, n \in {"", "illegal_move"} }

ReplayHistories ==
  UNION { { [i \in 1..k |-> [turn |-> i, player |-> f[i].player,
                              move |-> f[i].move, note |-> f[i].note]] :
              f \in [1..k -> ReplayRecords] } : k \in 0..MaxHist }

ReplayReasons == {JMissing, JStr(""), JStr("illegal_move"), JInt(7)}

ReplayWinners == {JMissing, JNull, JInt(0), JInt(1), JInt(2)}

EngineIdle ==
  /\ game = TicTacToe
  /\ max_turns = 0
  /\ prime_pause = FALSE
  /\ log_path = FALSE
  /\ state = initial_state(TicTacToe)
  /\ history = << >>
  /\ player = 0
  /\ turn = 1
  /\ legal = << >>
  /\ move = None
  /\ pc = "idle"
  /\ result = NoResult
  /\ exc = NoExc
  /\ calls = << >>
  /\ legal_calls = 0
  /\ log = << >>

ReplayInit ==
  /\ EngineIdle
  /\ ExtIdle
  /\ WlogIdle
  /\ SubIdle
  /\ TourIdle
  /\ rp_game \in ReplayGames
  /\ rp_payload \in [winner : ReplayWinners, reason : ReplayReasons,
                      move_history : ReplayHistories]
  /\ rp_pc = "input"
  /\ rp_out = NoReplay

\* a caller applies replay_from_move_history to the payload's move list
ReplayFromMoveHistory ==
  /\ rp_pc = "input"
  /\ rp_out' = replay_from_move_history(rp_game, rp_payload.move_history)
  /\ rp_pc' = IF rp_out'.ok THEN "history_done" ELSE "raised"
  /\ UNCHANGED <<engine_vars, ext_vars, tour_vars, wlog_vars, sub_vars, rp_game, rp_payload>>

\* a caller applies replay_from_log_payload to the payload
ReplayFromLogPayload ==
  /\ rp_pc = "input"
  /\ rp_out' = replay_from_log_payload(rp_game, rp_payload)
  /\ rp_pc' = IF rp_out'.ok THEN "payload_done" ELSE "raised"
  /\ UNCHANGED <<engine_vars, ext_vars, tour_vars, wlog_vars, sub_vars, rp_game, rp_payload>>

ReplayNext == ReplayFromMoveHistory \/ ReplayFromLogPayload

ReplaySpec == ReplayInit /\ [][ReplayNext]_vars

\* ------------------------------------------- engine.py 129-140: _write_log
\* path.write_text(data) is open(path, "w"), write(data), close(): the open
\* truncates the file, the buffered writer hands the text to the file in
\* chunks, and nothing is renamed into place.
WriteLogInit ==
  /\ EngineIdle
  /\ ExtIdle
  /\ ReplayIdle
  /\ SubIdle
  /\ TourIdle
  /\ wl_len \in 1..MaxChunks
  /\ wl_file \in {FileAbsent} \cup {FileHolds("old", n, n) : n \in 1..MaxChunks}
  /\ wl_pc = "start"
  /\ wl_seen = FileAbsent

\* engine.py 130, 140: mkdir of the parent, then open(path, "w")
WriteLogOpen ==
  /\ wl_pc = "start"
  /\ wl_file' = FileHolds("new", 0, wl_len)
  /\ wl_pc' = "writing"
  /\ UNCHANGED <<engine_vars, ext_vars, tour_vars, replay_vars, sub_vars, wl_len, wl_seen>>

\* engine.py 140: one write() of the buffered writer reaches the file
WriteLogChunk ==
  /\ wl_pc = "writing"
  /\ wl_file.have < wl_len
  /\ wl_file' = FileHolds("new", wl_file.have + 1, wl_len)
  /\ UNCHANGED <<engine_vars, ext_vars, tour_vars, replay_vars, sub_vars, wl_len, wl_pc, wl_seen>>

\* engine.py 140: the whole text is out, the file is closed
WriteLogClose ==
  /\ wl_pc = "writing"
  /\ wl_file.have = wl_len
  /\ wl_pc' = "closed"
  /\ UNCHANGED <<engine_vars, ext_vars, tour_vars, replay_vars, sub_vars, wl_len, wl_file, wl_seen>>

\* engine.py 140: a write() raises (disk full, interrupt); the file stays
WriteLogFail ==
  /\ wl_pc = "writing"
  /\ wl_file.have < wl_len
  /\ wl_pc' = "failed"
  /\ UNCHANGED <<engine_vars, ext_vars, tour_vars, replay_vars, sub_vars, wl_len, wl_file, wl_seen>>

\* another process reads `path` (replay.py 33-34, load_match_log)
ReadLog ==
  /\ wl_pc # "idle"
  /\ wl_seen' = wl_file
  /\ UNCHANGED <<engine_vars, ext_vars, tour_vars, replay_vars, sub_vars, wl_len, wl_file, wl_pc>>

WriteLogNext ==
  \/ WriteLogOpen
  \/ WriteLogChunk
  \/ WriteLogClose
  \/ WriteLogFail
  \/ ReadLog

WriteLogSpec == WriteLogInit /\ [][WriteLogNext]_vars

\* ------------------------------------- agents/subprocess_agent.py: transport
\* A line of the child's stdout.  k is what select_move makes of it:
\*   "blank"  only white space                     (line 95)
\*   "text"   not JSON                             (line 99)
\*   "value"  JSON, but no object                  (line 103)
\*   "other"  an object whose type is not "move"   (line 103)
\*   "error"  {"type": "error", "error": text}     (line 103)
\*   "nomove" {"type": "move"} without "move"      (line 107)
\*   "move"   {"type": "move", "move": m}          (line 109)
\*   "part"   characters without the newline that would end the line
Line(k, m) == [k |-> k, m |-> m]

Ignorable == {"blank", "text", "value", "other", "error"}

Replies == 0..1

\* what the child may write
ChildLines ==
  { Line(k, None) : k \in Ignorable \cup {"nomove"} }
    \cup { Line("move", m) : m \in Replies }

Part == Line("part", None)

Horizon == TimeoutTicks + 2

Raised(type) == [kind |-> "exc", move |-> None, type |-> type]

Returned(m) == [kind |-> "move", move |-> m, type |-> ""]

InCall == sa_pc \in {"loop", "select", "readline"}

Ended == sa_pc \in {"returned", "raised"}

\* the selector watches the file descriptor of the pipe, not the reader's buffer
Readable == sa_pipe # << >> \/ sa_eof

\* the reader holds a whole line
Buffered == sa_buf # << >> /\ Head(sa_buf).k # "part"

\* the thread in select_move can take no step until something else happens
Blocked ==
  \/ sa_pc = "select" /\ ~Readable /\ sa_now < sa_wait
  \/ sa_pc = "readline" /\ ~Buffered /\ sa_pipe = << >> /\ ~sa_eof

TransportInit ==
  /\ EngineIdle
  /\ ExtIdle
  /\ ReplayIdle
  /\ WlogIdle
  /\ TourIdle
  /\ sa_cls \in {"slots", "dict"}
  /\ sa_obj = "none"
  /\ sa_proc = "none"
  /\ sa_stdin = "open"
  /\ sa_pipe = << >>
  /\ sa_eof = FALSE
  /\ sa_buf = << >>
  /\ sa_out = << >>
  /\ sa_pc = "idle"
  /\ sa_ret = NoRet
  /\ sa_sent = 0
  /\ sa_now = 0
  /\ sa_deadline = 0
  /\ sa_wait = 0
  /\ sa_exit_at = -1
  /\ sa_signals = << >>
  /\ sa_sel_open = FALSE
  /\ sa_close_pc = "idle"
  /\ sa_reaped = FALSE
  /\ sa_grace_end = 0
  /\ sa_closes = 0
  /\ sa_first = NoFirst
  /\ sa_err = 0
  /\ sa_stuck = FALSE
  /\ sa_close_exc = FALSE
  /\ sa_stale = 0

\* the part of the state only the child and the pipes change
child_vars == <<sa_proc, sa_stdin, sa_pipe, sa_eof, sa_out, sa_exit_at>>

\* lines 14-41: Popen starts the child, then `self._proc = ...` is the first
\* assignment to a name the slots of the dataclass do not hold
PostInit ==
  /\ sa_obj = "none"
  /\ sa_proc' = "running"
  /\ IF sa_cls = "slots"
       THEN sa_obj' = "failed" /\ UNCHANGED sa_sel_open
       ELSE sa_obj' = "ok" /\ sa_sel_open' = TRUE
  /\ UNCHANGED <<engine_vars, ext_vars, tour_vars, replay_vars, wlog_vars, close_vars, err_vars, sa_stale,
                 sa_cls, sa_stdin, sa_pipe,
                 sa_eof, sa_buf, sa_out, sa_pc, sa_ret, sa_sent, sa_now,
                 sa_deadline, sa_wait, sa_exit_at, sa_signals, sa_close_pc>>

\* the child writes one more line to its stdout: during the call, or before
\* the turn message of the call is sent (a late answer to an earlier turn
\* message, a second answer to it, or a line nobody asked for)
ChildWrites(l) ==
  /\ sa_proc = "running" /\ ~sa_eof /\ ~sa_stuck
  /\ \/ InCall /\ sa_now < sa_deadline
     \/ sa_obj = "ok" /\ sa_pc = "idle" /\ sa_close_pc = "idle"
  /\ Len(sa_out) < MaxLines
  /\ \A i \in 1..Len(sa_out) : sa_out[i].k # "part"
  /\ sa_pipe' = Append(sa_pipe, l)
  /\ sa_out' = Append(sa_out, l)
  /\ UNCHANGED <<engine_vars, ext_vars, tour_vars, replay_vars, wlog_vars, close_vars, err_vars, sa_stale,
                 sa_cls, sa_obj, sa_proc,
                 sa_stdin, sa_eof, sa_buf, sa_pc, sa_ret, sa_sent, sa_now,
                 sa_deadline, sa_wait, sa_exit_at, sa_signals, sa_sel_open,
                 sa_close_pc>>

\* the child closes its end of stdin and goes on running
ChildClosesStdin ==
  /\ sa_obj = "ok" /\ sa_proc = "running" /\ sa_pc = "idle"
  /\ sa_close_pc = "idle" /\ ~sa_stuck
  /\ sa_stdin = "open"
  /\ sa_stdin' = "closed"
  /\ UNCHANGED <<engine_vars, ext_vars, tour_vars, replay_vars, wlog_vars, close_vars, err_vars, sa_stale,
                 sa_cls, sa_obj, sa_proc,
                 sa_pipe, sa_eof, sa_buf, sa_out, sa_pc, sa_ret, sa_sent, sa_now,
                 sa_deadline, sa_wait, sa_exit_at, sa_signals, sa_sel_open,
                 sa_close_pc>>

\* the child exits by itself: its ends of both pipes close
ChildExits ==
  /\ sa_obj = "ok" /\ sa_proc = "running"
  /\ sa_pc \in {"idle", "loop", "select", "readline"}
  /\ sa_close_pc = "idle" /\ ~sa_stuck
  /\ sa_proc' = "exited"
  /\ sa_stdin' = "gone"
  /\ sa_eof' = TRUE
  /\ sa_exit_at' = sa_now
  /\ UNCHANGED <<engine_vars, ext_vars, tour_vars, replay_vars, wlog_vars, close_vars, err_vars, sa_stale,
                 sa_cls, sa_obj, sa_pipe,
                 sa_buf, sa_out, sa_pc, sa_ret, sa_sent, sa_now, sa_deadline,
                 sa_wait, sa_signals, sa_sel_open, sa_close_pc>>

\* the child dies of a signal the transport has sent
ChildDies ==
  /\ sa_proc = "running" /\ sa_signals # << >>
  /\ sa_proc' = "killed"
  /\ sa_stdin' = "gone"
  /\ sa_eof' = TRUE
  /\ sa_exit_at' = sa_now
  /\ UNCHANGED <<engine_vars, ext_vars, tour_vars, replay_vars, wlog_vars, close_vars, err_vars, sa_stale,
                 sa_cls, sa_obj, sa_pipe,
                 sa_buf, sa_out, sa_pc, sa_ret, sa_sent, sa_now, sa_deadline,
                 sa_wait, sa_signals, sa_sel_open, sa_close_pc>>

\* time passes while the calling thread is blocked
Tick ==
  /\ Blocked
  /\ sa_now < Horizon
  /\ sa_now' = sa_now + 1
  /\ UNCHANGED <<engine_vars, ext_vars, tour_vars, replay_vars, wlog_vars, close_vars, err_vars, sa_stale,
                 sa_cls, sa_obj, child_vars,
                 sa_buf, sa_pc, sa_ret, sa_sent, sa_deadline, sa_wait,
                 sa_signals, sa_sel_open, sa_close_pc>>

\* the write of line 78 fails on a pipe whose other end is closed
stdin_write_raises_never(stdin) == FALSE

stdin_write_raises(stdin) == stdin # "open"

\* lines 67-81: the poll() check, the turn message, the deadline
SelectMoveEnter ==
  /\ sa_obj = "ok" /\ sa_pc = "idle" /\ sa_close_pc = "idle"
  /\ IF sa_proc # "running"
       THEN /\ sa_pc' = "raised"
            /\ sa_ret' = Raised("RuntimeError")
            /\ sa_reaped' = TRUE
            /\ UNCHANGED <<sa_sent, sa_deadline, sa_stale>>
       ELSE IF stdin_write_raises(sa_stdin)
         THEN /\ sa_pc' = "raised"
              /\ sa_ret' = Raised("BrokenPipeError")
              /\ UNCHANGED <<sa_sent, sa_deadline, sa_reaped, sa_stale>>
         ELSE /\ sa_sent' = sa_sent + 1
              /\ sa_stale' = Len(sa_out)
              /\ sa_deadline' = sa_now + TimeoutTicks
              /\ sa_pc' = "loop"
              /\ UNCHANGED <<sa_ret, sa_reaped>>
  /\ UNCHANGED <<engine_vars, ext_vars, tour_vars, replay_vars, wlog_vars, err_vars, sa_grace_end,
                 sa_closes, sa_first, sa_close_exc, sa_cls, sa_obj, child_vars,
                 sa_buf, sa_now, sa_wait, sa_signals, sa_sel_open, sa_close_pc>>

\* lines 83-87 with a timeout branch that also kills the child
LoopHead_kills ==
  /\ sa_pc = "loop"
  /\ IF sa_deadline - sa_now <= 0
       THEN /\ sa_pc' = "raised"
            /\ sa_ret' = Raised("TimeoutError")
            /\ sa_signals' = Append(sa_signals, "KILL")
            /\ UNCHANGED sa_wait
       ELSE /\ sa_wait' = sa_now + Min(PollTicks, sa_deadline - sa_now)
            /\ sa_pc' = "select"
            /\ UNCHANGED <<sa_ret, sa_signals>>
  /\ UNCHANGED <<engine_vars, ext_vars, tour_vars, replay_vars, wlog_vars, close_vars, err_vars, sa_stale,
                 sa_cls, sa_obj, child_vars,
                 sa_buf, sa_sent, sa_now, sa_deadline, sa_sel_open, sa_close_pc>>

\* lines 83-87: the head of the loop, up to the call of select
LoopHead ==
  /\ sa_pc = "loop"
  /\ IF sa_deadline - sa_now <= 0
       THEN /\ sa_pc' = "raised"
            /\ sa_ret' = Raised("TimeoutError")
            /\ UNCHANGED sa_wait
       ELSE /\ sa_wait' = sa_now + Min(PollTicks, sa_deadline - sa_now)
            /\ sa_pc' = "select"
            /\ UNCHANGED sa_ret
  /\ UNCHANGED <<engine_vars, ext_vars, tour_vars, replay_vars, wlog_vars, close_vars, err_vars, sa_stale,
                 sa_cls, sa_obj, child_vars,
                 sa_buf, sa_sent, sa_now, sa_deadline, sa_signals, sa_sel_open,
                 sa_close_pc>>

\* lines 87-89: select returns with the descriptor ready, or empty-handed
\* once its timeout has run out
SelectReturns ==
  /\ sa_pc = "select"
  /\ IF Readable THEN sa_pc' = "readline"
                 ELSE sa_now >= sa_wait /\ sa_pc' = "loop"
  /\ UNCHANGED <<engine_vars, ext_vars, tour_vars, replay_vars, wlog_vars, close_vars, err_vars, sa_stale,
                 sa_cls, sa_obj, child_vars,
                 sa_buf, sa_ret, sa_sent, sa_now, sa_deadline, sa_wait,
                 sa_signals, sa_sel_open, sa_close_pc>>

\* line 91: the reader holds no whole line, so it reads what the pipe holds
ReadlineFill ==
  /\ sa_pc = "readline" /\ ~Buffered /\ sa_pipe # << >>
  /\ sa_buf' = sa_buf \o sa_pipe
  /\ sa_pipe' = << >>
  /\ UNCHANGED <<engine_vars, ext_vars, tour_vars, replay_vars, wlog_vars, close_vars, err_vars, sa_stale,
                 sa_cls, sa_obj, sa_proc,
                 sa_stdin, sa_eof, sa_out, sa_exit_at, sa_pc, sa_ret, sa_sent,
                 sa_now, sa_deadline, sa_wait, sa_signals, sa_sel_open,
                 sa_close_pc>>

\* lines 91-109: readline hands out the first whole line of the reader
ReadlineLine ==
  /\ sa_pc = "readline" /\ Buffered
  /\ sa_buf' = Tail(sa_buf)
  /\ LET l == Head(sa_buf)
     IN  CASE l.k \in Ignorable ->
                sa_pc' = "loop" /\ UNCHANGED sa_ret
           [] l.k = "nomove" ->
                sa_pc' = "raised" /\ sa_ret' = Raised("ValueError")
           [] l.k = "move" ->
                sa_pc' = "returned" /\ sa_ret' = Returned(l.m)
  /\ UNCHANGED <<engine_vars, ext_vars, tour_vars, replay_vars, wlog_vars, close_vars, err_vars, sa_stale,
                 sa_cls, sa_obj, child_vars,
                 sa_sent, sa_now, sa_deadline, sa_wait, sa_signals, sa_sel_open,
                 sa_close_pc>>

\* lines 91-99: end of file; readline hands out "" or the characters of an
\* unfinished line, which are no JSON
ReadlineEOF ==
  /\ sa_pc = "readline" /\ ~Buffered /\ sa_pipe = << >> /\ sa_eof
  /\ IF sa_buf = << >>
       THEN sa_pc' = "raised" /\ sa_ret' = Raised("RuntimeError")
       ELSE sa_pc' = "loop" /\ UNCHANGED sa_ret
  /\ sa_buf' = << >>
  /\ UNCHANGED <<engine_vars, ext_vars, tour_vars, replay_vars, wlog_vars, close_vars, err_vars, sa_stale,
                 sa_cls, sa_obj, child_vars,
                 sa_sent, sa_now, sa_deadline, sa_wait, sa_signals, sa_sel_open,
                 sa_close_pc>>

\* line 52: closing a selector raises nothing, open or closed already
sel_close_raises(open) == FALSE

\* what a call of close() leaves behind, kept from the first call
Left(reaped) ==
  IF sa_first.set THEN sa_first
  ELSE [reaped |-> reaped, sel_open |-> FALSE, set |-> TRUE]

\* lines 43-46: close() outside select_move; poll() finds the child running
\* and terminate() follows, or finds it ended and the selector is closed
CloseStart ==
  /\ sa_obj = "ok" /\ sa_close_pc \in {"idle", "done"}
  /\ sa_closes < MaxCloses
  /\ sa_pc \in {"idle", "returned", "raised"}
  /\ IF sa_proc = "running"
       THEN /\ sa_signals' = Append(sa_signals, "TERM")
            /\ sa_close_pc' = "wait"
            /\ sa_grace_end' = sa_now + GraceTicks
            /\ UNCHANGED <<sa_sel_open, sa_reaped, sa_closes, sa_first,
                           sa_close_exc>>
       ELSE /\ sa_reaped' = TRUE
            /\ sa_close_exc' = (sa_close_exc \/ sel_close_raises(sa_sel_open))
            /\ sa_sel_open' = FALSE
            /\ sa_close_pc' = "done"
            /\ sa_closes' = sa_closes + 1
            /\ sa_first' = Left(TRUE)
            /\ UNCHANGED <<sa_signals, sa_grace_end>>
  /\ UNCHANGED <<engine_vars, ext_vars, tour_vars, replay_vars, wlog_vars, err_vars, sa_stale, sa_cls,
                 sa_obj, child_vars, sa_buf, sa_pc, sa_ret, sa_sent, sa_now,
                 sa_deadline, sa_wait>>

\* line 48: time passes while close() waits for the child to end
CloseTick ==
  /\ sa_close_pc = "wait" /\ sa_proc = "running"
  /\ sa_now < sa_grace_end
  /\ sa_now' = sa_now + 1
  /\ UNCHANGED <<engine_vars, ext_vars, tour_vars, replay_vars, wlog_vars, close_vars, err_vars, sa_stale,
                 sa_cls, sa_obj, child_vars, sa_buf, sa_pc,
                 sa_ret, sa_sent, sa_deadline, sa_wait, sa_signals,
                 sa_sel_open, sa_close_pc>>

\* lines 47-52: wait(timeout=1) returns with the exit status, or runs out and
\* kill() follows, with no wait after it; then the selector is closed
CloseFinish ==
  /\ sa_close_pc = "wait"
  /\ IF sa_proc = "running"
       THEN /\ sa_now >= sa_grace_end
            /\ sa_signals' = Append(sa_signals, "KILL")
            /\ sa_first' = Left(sa_reaped)
            /\ UNCHANGED sa_reaped
       ELSE /\ sa_reaped' = TRUE
            /\ sa_first' = Left(TRUE)
            /\ UNCHANGED sa_signals
  /\ sa_close_exc' = (sa_close_exc \/ sel_close_raises(sa_sel_open))
  /\ sa_sel_open' = FALSE
  /\ sa_close_pc' = "done"
  /\ sa_closes' = sa_closes + 1
  /\ UNCHANGED <<engine_vars, ext_vars, tour_vars, replay_vars, wlog_vars, err_vars, sa_stale, sa_grace_end,
                 sa_cls, sa_obj, child_vars, sa_buf, sa_pc, sa_ret, sa_sent,
                 sa_now, sa_deadline, sa_wait>>

\* the child writes debug text to its stderr: into the pipe while there is
\* room, and blocks in the write once the pipe is full
ChildWritesStderr ==
  /\ sa_proc = "running" /\ ~sa_stuck
  /\ InCall /\ sa_now < sa_deadline
  /\ IF sa_err < StderrCap
       THEN sa_err' = sa_err + 1 /\ UNCHANGED sa_stuck
       ELSE sa_stuck' = TRUE /\ UNCHANGED sa_err
  /\ UNCHANGED <<engine_vars, ext_vars, tour_vars, replay_vars, wlog_vars, close_vars, sa_stale,
                 sa_cls, sa_obj, child_vars, sa_buf, sa_pc, sa_ret, sa_sent,
                 sa_now, sa_deadline, sa_wait, sa_signals, sa_sel_open,
                 sa_close_pc>>

TransportNext ==
  \/ PostInit
  \/ \E l \in ChildLines \cup {Part} : ChildWrites(l)
  \/ ChildClosesStdin
  \/ ChildExits
  \/ ChildDies
  \/ Tick
  \/ SelectMoveEnter
  \/ LoopHead
  \/ SelectReturns
  \/ ReadlineFill
  \/ ReadlineLine
  \/ ReadlineEOF
  \/ CloseStart
  \/ CloseTick
  \/ CloseFinish
  \/ ChildWritesStderr

TransportSpec == TransportInit /\ [][TransportNext]_vars

\* ------------------------------------------------- tournament.py: scheduler
\* An id is a string; the model writes the k-th id in lexicographic order as
\* the number k.  A game spec is written as a number too: the home game of
\* competitor k as k, the neutral game as neutral_game.
neutral_game == 0

\* the agent spec of competitor i: the built-in random agent, which has no
\* close(), for the first id; an agent with a close() for every other id
AgentSpecOf(i) ==
  IF i = 1 THEN [kind |-> "random", cmd |-> i]
           ELSE [kind |-> "subprocess", cmd |-> i]

Competitor(i) == [id |-> i, home_game |-> i, agent |-> AgentSpecOf(i)]

\* the inner loop of _pairings starts at the element itself
first_j_self(i) == i

\* line 85: range(i + 1, len(xs))
first_j(i) == i + 1

RECURSIVE pairs_from(_, _, _, _)
pairs_from(xs, i, j, out) ==
  IF i > Len(xs) THEN out
  ELSE IF j > Len(xs) THEN pairs_from(xs, i + 1, first_j(i + 1), out)
  ELSE pairs_from(xs, i, j + 1, Append(out, <<xs[i], xs[j]>>))

_pairings(xs) == pairs_from(xs, 1, first_j(1), << >>)

_scoreboard_init(competitors) ==
  [id \in { competitors[k].id : k \in 1..Len(competitors) } |->
     [wins |-> 0, losses |-> 0, draws |-> 0, points |-> 0]]

\* _apply_result with two points for a win
_apply_result_two(sb, p0, p1, winner) ==
  IF winner = None
    THEN LET s1 == [sb EXCEPT ![p0].draws = @ + 1]
             s2 == [s1 EXCEPT ![p1].draws = @ + 1]
             s3 == [s2 EXCEPT ![p0].points = @ + 1]
         IN  [s3 EXCEPT ![p1].points = @ + 1]
    ELSE LET loser == IF winner = p0 THEN p1 ELSE p0
             s1 == [sb EXCEPT ![winner].wins = @ + 1]
             s2 == [s1 EXCEPT ![loser].losses = @ + 1]
         IN  [s2 EXCEPT ![winner].points = @ + 2]

\* lines 94-105, one assignment after the other
_apply_result(sb, p0, p1, winner) ==
  IF winner = None
    THEN LET s1 == [sb EXCEPT ![p0].draws = @ + 1]
             s2 == [s1 EXCEPT ![p1].draws = @ + 1]
             s3 == [s2 EXCEPT ![p0].points = @ + 1]
         IN  [s3 EXCEPT ![p1].points = @ + 1]
    ELSE LET loser == IF winner = p0 THEN p1 ELSE p0
             s1 == [sb EXCEPT ![winner].wins = @ + 1]
             s2 == [s1 EXCEPT ![loser].losses = @ + 1]
         IN  [s2 EXCEPT ![winner].points = @ + 3]

Home(id) == [kind |-> "home", of |-> id]

Neutral == [kind |-> "neutral", of |-> 0]

\* the first seat of the neutral scenario is that of the first competitor
p0_neutral_first(a, b) == a.id

\* line 136: min(a.id, b.id)
p0_neutral(a, b) == Min(a.id, b.id)

\* lines 133-137
scenarios(a, b) ==
  << [context |-> Home(a.id), game |-> a.home_game, p0_default |-> a.id],
     [context |-> Home(b.id), game |-> b.home_game, p0_default |-> b.id],
     [context |-> Neutral, game |-> neutral_game, p0_default |-> p0_neutral(a, b)] >>

\* lines 141-143
seats(a, b, p0_default, swap_starts) ==
  LET first == <<p0_default, IF p0_default = b.id THEN a.id ELSE b.id>>
  IN  IF swap_starts THEN <<first, <<first[2], first[1]>>>> ELSE <<first>>

\* the loop variables of lines 131-145 at the first match, NoPos if the
\* loops have no iteration at all
FirstPos(pairs, rounds) ==
  IF Len(pairs) = 0 \/ rounds <= 0 THEN NoPos
  ELSE [pair |-> 1, scen |-> 1, r |-> 0, seat |-> 1]

\* the loop variables at the match after pos: the four nested loops, the
\* innermost first
NextPos(pos, pairs, rounds, swap_starts) ==
  LET a == pairs[pos.pair][1]
      b == pairs[pos.pair][2]
      sc == scenarios(a, b)
      st == seats(a, b, sc[pos.scen].p0_default, swap_starts)
  IN  IF pos.seat < Len(st) THEN [pos EXCEPT !.seat = @ + 1]
      ELSE IF pos.r + 1 < rounds THEN [pos EXCEPT !.r = @ + 1, !.seat = 1]
      ELSE IF pos.scen < Len(sc)
        THEN [pos EXCEPT !.scen = @ + 1, !.r = 0, !.seat = 1]
      ELSE IF pos.pair < Len(pairs)
        THEN [pair |-> pos.pair + 1, scen |-> 1, r |-> 0, seat |-> 1]
      ELSE NoPos

\* the match the loop variables stand at
cur_a == t_pairs[t_pos.pair][1]

cur_b == t_pairs[t_pos.pair][2]

cur_scen == scenarios(cur_a, cur_b)[t_pos.scen]

cur_seat == seats(cur_a, cur_b, cur_scen.p0_default, t_swap)[t_pos.seat]

p0_id == cur_seat[1]

p1_id == cur_seat[2]

\* lines 147-148
cur_p0 == IF cur_a.id = p0_id THEN cur_a ELSE cur_b

cur_p1 == IF cur_p0 = cur_a THEN cur_b ELSE cur_a

NoRes == [game |-> 0, winner |-> None, reason |-> "", turns |-> 0]

Winners == {None, 0, 1}

\* orders of the first n ids: around the circle from every start, in
\* either direction (for up to three ids these are all orders)
Orders(n) ==
  { [k \in 1..n |-> ((start + k - 2) % n) + 1] : start \in 1..n }
    \cup { [k \in 1..n |-> ((start - k + n) % n) + 1] : start \in 1..n }

TournamentInit ==
  /\ EngineIdle
  /\ ExtIdle
  /\ ReplayIdle
  /\ WlogIdle
  /\ SubIdle
  /\ \E n \in 1..MaxCompetitors : \E f \in Orders(n) :
       t_comps = [k \in 1..n |-> Competitor(f[k])]
  /\ t_rounds \in 0..MaxRounds
  /\ t_swap \in BOOLEAN
  /\ t_plan \in [1..PlanLen -> Winners]
  /\ t_pc = "start"
  /\ t_pairs = << >>
  /\ t_pos = NoPos
  /\ t_agent0 = NoAgent
  /\ t_agent1 = NoAgent
  /\ t_res = NoRes
  /\ t_exc = ""
  /\ t_matches = << >>
  /\ t_sb = << >>
  /\ t_made = 0
  /\ t_live = {}
  /\ t_calls = << >>
  /\ t_played = 0

\* the agents a spec can build fail to build, or build: the built-in random
\* agent always builds
MayFail(spec) == spec.kind # "random"

\* line 170 with the seats exchanged
winner_id_swapped(w, p0, p1) ==
  IF w = None THEN None ELSE IF w = 0 THEN p1 ELSE p0

\* line 170
winner_id(w, p0, p1) ==
  IF w = None THEN None ELSE IF w = 0 THEN p0 ELSE p1

\* lines 123-131: the empty scoreboard and the first iteration of the loops
TourStart ==
  /\ t_pc = "start"
  /\ t_sb' = _scoreboard_init(t_comps)
  /\ t_matches' = << >>
  /\ t_pairs' = _pairings(t_comps)
  /\ t_pos' = FirstPos(t_pairs', t_rounds)
  /\ t_pc' = IF t_pos' = NoPos THEN "done" ELSE "build0"
  /\ UNCHANGED <<engine_vars, ext_vars, replay_vars, wlog_vars, sub_vars, t_comps,
                 t_rounds, t_swap, t_plan, t_agent0, t_agent1, t_res, t_exc,
                 t_made, t_live, t_calls, t_played>>

\* an instance fresh from its factory, for the match that comes next
Built(spec) ==
  [n |-> t_made + 1, spec |-> spec, close |-> spec.kind # "random",
   match |-> Len(t_matches) + 1]

\* lines 146-150: agent0 is built, or its factory raises
Build0 ==
  /\ t_pc = "build0"
  /\ \E ok \in BOOLEAN :
       /\ ok \/ MayFail(cur_p0.agent)
       /\ IF ok
            THEN /\ t_agent0' = Built(cur_p0.agent)
                 /\ t_made' = t_made + 1
                 /\ t_live' = IF t_agent0'.close THEN t_live \cup {t_agent0'.n}
                                                 ELSE t_live
                 /\ t_pc' = "build1"
                 /\ UNCHANGED t_exc
            ELSE /\ t_exc' = "construct"
                 /\ t_pc' = "raised"
                 /\ UNCHANGED <<t_agent0, t_made, t_live>>
  /\ UNCHANGED <<engine_vars, ext_vars, replay_vars, wlog_vars, sub_vars, t_comps,
                 t_rounds, t_swap, t_plan, t_pairs, t_pos, t_agent1, t_res, t_matches,
                 t_sb, t_calls, t_played>>

\* line 151: agent1 is built, or its factory raises, outside any try
Build1 ==
  /\ t_pc = "build1"
  /\ \E ok \in BOOLEAN :
       /\ ok \/ MayFail(cur_p1.agent)
       /\ IF ok
            THEN /\ t_agent1' = Built(cur_p1.agent)
                 /\ t_made' = t_made + 1
                 /\ t_live' = IF t_agent1'.close THEN t_live \cup {t_agent1'.n}
                                                 ELSE t_live
                 /\ t_pc' = "play"
                 /\ UNCHANGED t_exc
            ELSE /\ t_exc' = "construct"
                 /\ t_pc' = "raised"
                 /\ UNCHANGED <<t_agent1, t_made, t_live>>
  /\ UNCHANGED <<engine_vars, ext_vars, replay_vars, wlog_vars, sub_vars, t_comps,
                 t_rounds, t_swap, t_plan, t_pairs, t_pos, t_agent0, t_res, t_matches,
                 t_sb, t_calls, t_played>>

\* lines 158-165: play_match returns its result, or an exception of an agent
\* comes out of it; either way the finally block is next
Play ==
  /\ t_pc = "play"
  /\ t_calls' = Append(t_calls, [game |-> cur_scen.game, agent0 |-> t_agent0,
                                 agent1 |-> t_agent1])
  /\ t_played' = t_played + 1
  /\ \E ok \in BOOLEAN :
       /\ ok \/ MayFail(t_agent0.spec) \/ MayFail(t_agent1.spec)
       /\ IF ok
            THEN /\ t_res' = [game |-> cur_scen.game,
                              winner |-> t_plan[(t_played % PlanLen) + 1],
                              reason |-> "terminal", turns |-> 1]
                 /\ UNCHANGED t_exc
            ELSE /\ t_exc' = "agent"
                 /\ UNCHANGED t_res
  /\ t_pc' = "close0"
  /\ UNCHANGED <<engine_vars, ext_vars, replay_vars, wlog_vars, sub_vars, t_comps,
                 t_rounds, t_swap, t_plan, t_pairs, t_pos, t_agent0, t_agent1,
                 t_matches, t_sb, t_made, t_live>>

\* line 167: _maybe_close(agent0); a close() that raises leaves the block
Close0 ==
  /\ t_pc = "close0"
  /\ IF t_agent0.close
       THEN /\ t_live' = t_live \ {t_agent0.n}
            /\ \E ok \in BOOLEAN :
                 IF ok THEN t_pc' = "close1" /\ UNCHANGED t_exc
                       ELSE t_pc' = "raised" /\ t_exc' = "close"
       ELSE /\ t_pc' = "close1"
            /\ UNCHANGED <<t_live, t_exc>>
  /\ UNCHANGED <<engine_vars, ext_vars, replay_vars, wlog_vars, sub_vars, t_comps,
                 t_rounds, t_swap, t_plan, t_pairs, t_pos, t_agent0, t_agent1, t_res,
                 t_matches, t_sb, t_made, t_calls, t_played>>

\* the finally block without its second line
Close1_skipped ==
  /\ t_pc = "close1"
  /\ t_pc' = IF t_exc # "" THEN "raised" ELSE "record"
  /\ UNCHANGED <<engine_vars, ext_vars, replay_vars, wlog_vars, sub_vars, t_comps,
                 t_rounds, t_swap, t_plan, t_pairs, t_pos, t_agent0, t_agent1, t_res,
                 t_matches, t_sb, t_made, t_calls, t_played, t_live, t_exc>>

\* line 168: _maybe_close(agent1); then the pending exception goes on, or
\* line 170 is next
Close1 ==
  /\ t_pc = "close1"
  /\ IF t_agent1.close
       THEN /\ t_live' = t_live \ {t_agent1.n}
            /\ \E ok \in BOOLEAN :
                 IF ok THEN /\ t_pc' = IF t_exc # "" THEN "raised" ELSE "record"
                            /\ UNCHANGED t_exc
                       ELSE t_pc' = "raised" /\ t_exc' = "close"
       ELSE /\ t_pc' = IF t_exc # "" THEN "raised" ELSE "record"
            /\ UNCHANGED <<t_live, t_exc>>
  /\ UNCHANGED <<engine_vars, ext_vars, replay_vars, wlog_vars, sub_vars, t_comps,
                 t_rounds, t_swap, t_plan, t_pairs, t_pos, t_agent0, t_agent1, t_res,
                 t_matches, t_sb, t_made, t_calls, t_played>>

\* lines 170-182, and on to the next iteration or to the return of line 185
Record ==
  /\ t_pc = "record"
  /\ LET w == winner_id(t_res.winner, p0_id, p1_id)
     IN  /\ t_matches' = Append(t_matches,
                                [context |-> cur_scen.context, game |-> t_res.game,
                                 p0 |-> p0_id, p1 |-> p1_id, winner |-> w,
                                 reason |-> t_res.reason, turns |-> t_res.turns])
         /\ t_sb' = _apply_result(t_sb, p0_id, p1_id, w)
  /\ t_pos' = NextPos(t_pos, t_pairs, t_rounds, t_swap)
  /\ t_pc' = IF t_pos' = NoPos THEN "done" ELSE "build0"
  /\ UNCHANGED <<engine_vars, ext_vars, replay_vars, wlog_vars, sub_vars, t_comps,
                 t_rounds, t_swap, t_plan, t_pairs, t_agent0, t_agent1, t_res, t_exc,
                 t_made, t_live, t_calls, t_played>>

TournamentNext ==
  \/ TourStart
  \/ Build0
  \/ Build1
  \/ Play
  \/ Close0
  \/ Close1
  \/ Record

TournamentSpec == TournamentInit /\ [][TournamentNext]_vars

\* --------------------------------------- tournament.py 153-156: log paths
\* A string is a sequence of characters.  The id strings are single letters
\* and two letters joined by "_", "_r0_" or "_vs_".
MaxLogCompetitors == 2

IdLetters == {"a", "b"}

IdSeparators == { <<"_">>, <<"_", "r", "0", "_">>, <<"_", "v", "s", "_">> }

IdStrings ==
  { <<x>> : x \in IdLetters }
    \cup { <<x>> \o sep \o <<y>> : x \in IdLetters, y \in IdLetters, sep \in IdSeparators }

\* the code point of a character of an id
Ord(c) ==
  CASE c = "0" -> 48 [] c = "_" -> 95 [] c = "a" -> 97 [] c = "b" -> 98
    [] c = "r" -> 114 [] c = "s" -> 115 [] c = "v" -> 118

\* s < t on Python strings
RECURSIVE StrLess(_, _)
StrLess(s, t) ==
  IF t = << >> THEN FALSE
  ELSE IF s = << >> THEN TRUE
  ELSE IF Head(s) # Head(t) THEN Ord(Head(s)) < Ord(Head(t))
  ELSE StrLess(Tail(s), Tail(t))

\* n distinct id strings, the k-th in lexicographic order at k
IdNames(n) ==
  { f \in [1..n -> IdStrings] : \A i \in 1..n : \A j \in 1..n : i < j => StrLess(f[i], f[j]) }

Digits == <<"0", "1", "2", "3", "4", "5", "6", "7", "8", "9">>

\* str(r) of an r below ten
str_int(r) == <<Digits[r + 1]>>

\* lines 133-135: "home:" + id, or "neutral"
context_str(names, ctx) ==
  IF ctx.kind = "home" THEN <<"h", "o", "m", "e", ":">> \o names[ctx.of]
  ELSE <<"n", "e", "u", "t", "r", "a", "l">>

\* line 155: context.replace(":", "_")
replace_colon(s) == [i \in 1..Len(s) |-> IF s[i] = ":" THEN "_" ELSE s[i]]

\* line 156: the directory and the file name below log_dir
match_log_path(names, a, b, ctx, r, p0) ==
  << names[a.id] \o <<"_", "v", "s", "_">> \o names[b.id],
     replace_colon(context_str(names, ctx)) \o <<"_", "r">> \o str_int(r) \o <<"_">>
       \o names[p0] \o <<"_", "s", "t", "a", "r", "t", "s", ".", "j", "s", "o", "n">> >>

LogPathInit ==
  /\ EngineIdle
  /\ ReplayIdle
  /\ WlogIdle
  /\ SubIdle
  /\ TourIdle
  /\ GuiIdle
  /\ CalderaIdle
  /\ \E n \in 1..MaxLogCompetitors :
       /\ lp_names \in IdNames(n)
       /\ \E f \in Orders(n) : lp_comps = [k \in 1..n |-> Competitor(f[k])]
  /\ lp_rounds \in 0..MaxRounds
  /\ lp_swap \in BOOLEAN
  /\ lp_pc = "start"
  /\ lp_pairs = << >>
  /\ lp_pos = NoPos
  /\ lp_files = << >>

\* lines 131-145: the loops are entered
LogStart ==
  /\ lp_pc = "start"
  /\ lp_pairs' = _pairings(lp_comps)
  /\ lp_pos' = FirstPos(lp_pairs', lp_rounds)
  /\ lp_pc' = IF lp_pos' = NoPos THEN "done" ELSE "match"
  /\ UNCHANGED <<engine_vars, replay_vars, wlog_vars, sub_vars, tour_vars, gui_vars,
                 cal_vars, lp_names, lp_comps, lp_rounds, lp_swap, lp_files>>

\* lines 145-165: one match; play_match writes its log to log_path
LogMatch ==
  /\ lp_pc = "match"
  /\ LET a == lp_pairs[lp_pos.pair][1]
         b == lp_pairs[lp_pos.pair][2]
         sc == scenarios(a, b)[lp_pos.scen]
         st == seats(a, b, sc.p0_default, lp_swap)[lp_pos.seat]
     IN  lp_files' = Append(lp_files, match_log_path(lp_names, a, b, sc.context, lp_pos.r, st[1]))
  /\ lp_pos' = NextPos(lp_pos, lp_pairs, lp_rounds, lp_swap)
  /\ lp_pc' = IF lp_pos' = NoPos THEN "done" ELSE "match"
  /\ UNCHANGED <<engine_vars, replay_vars, wlog_vars, sub_vars, tour_vars, gui_vars,
                 cal_vars, lp_names, lp_comps, lp_rounds, lp_swap, lp_pairs>>

LogPathNext == LogStart \/ LogMatch

LogPathSpec == LogPathInit /\ [][LogPathNext]_vars

\* ------------------------------------------------ gui.py: ArenaApp, live play
\* The window is opened on a live match of two agents that are not human,
\* with the cursor on the latest state.  The same game, max_turns and agents
\* are handed to play_match first, which writes its log; the window plays
\* the match after that.
MaxSessions == 1

GuiMaxPile == 2

GuiMaxTurns == 3

DecisionLen == 2

GuiGames ==
  {TicTacToe} \cup
  { [name |-> "pile", start |-> s, cut |-> c, verdict |-> v] :
      s \in 0..GuiMaxPile, c \in (-1)..GuiMaxPile, v \in Verdicts }

\* an agent returns its first or its second legal move or a move that is not
\* legal, or it raises
Decisions == {"first", "second", "illegal"} \cup ExcTypes

decision(plan, k) == plan[((k - 1) % DecisionLen) + 1]

decided_move(d, lg) ==
  IF d = "first" THEN lg[1]
  ELSE IF d = "second" THEN lg[Min(2, Len(lg))]
  ELSE BadMove

MoveRow(t, p, m, n) == [turn |-> t, player |-> p, move |-> m, note |-> n]

\* the agents of session n: self._agents[seat]
gui_agent(n, seat) == <<n, seat>>

\* gui.py 55-58: close() is called on the agents that have one
gui_closable(n) == { gui_agent(n, seat) : seat \in {q \in {0, 1} : agent_kind(q) = "subprocess"} }

\* gui.py 874-875
_player_to_act == Len(gu_moves) % 2

\* gui.py 880-888
_is_match_over ==
  IF gu_override # NoVerdict THEN gu_override.is_terminal
  ELSE IF gu_result # NoVerdict THEN gu_result.is_terminal
  ELSE terminal(game, gu_state).is_terminal

\* gui.py 890-897
_current_terminal ==
  IF gu_override # NoVerdict THEN gu_override
  ELSE IF gu_result # NoVerdict THEN gu_result
  ELSE terminal(game, gu_state)

\* everything outside the window
gui_outside ==
  <<engine_vars, replay_vars, wlog_vars, sub_vars, tour_vars, lp_vars, cal_vars>>

\* gui.py 363-499: the window after __init__, with play_match about to run
GuiInit ==
  /\ game \in GuiGames
  /\ max_turns \in 0..GuiMaxTurns
  /\ prime_pause = FALSE
  /\ log_path = TRUE
  /\ state = initial_state(game)
  /\ history = << >>
  /\ player = 0
  /\ turn = 1
  /\ legal = << >>
  /\ move = None
  /\ pc = "loop"
  /\ result = NoResult
  /\ exc = NoExc
  /\ calls = << >>
  /\ legal_calls = 0
  /\ log = << >>
  /\ ReplayIdle
  /\ WlogIdle
  /\ SubIdle
  /\ TourIdle
  /\ LogPathIdle
  /\ CalderaIdle
  /\ gu_plan \in [1..DecisionLen -> Decisions]
  /\ gu_mode = "live"
  /\ gu_session = 0
  /\ gu_state = initial_state(game)
  /\ gu_moves = << >>
  /\ gu_result = NoVerdict
  /\ gu_override = NoVerdict
  /\ gu_busy = FALSE
  /\ gu_worker = NoWorker
  /\ gu_closed = {}

\* engine.py 95 with the agents of the plan
PlanReturns ==
  /\ decision(gu_plan, turn) \notin ExcTypes
  /\ AgentReturns(decided_move(decision(gu_plan, turn), legal))

PlanRaises ==
  /\ decision(gu_plan, turn) \in ExcTypes
  /\ AgentRaises(decision(gu_plan, turn))

\* gui.py 851-858, 815-844, 917-948: Next or an autoplay tick in a live
\* match that is not over: the turn cap, no legal moves, or the worker thread
\* is started
StepLive ==
  /\ gu_mode = "live" /\ ~gu_busy
  /\ ~_is_match_over
  /\ IF Len(gu_moves) >= max_turns
       THEN /\ gu_override' = Terminal(TRUE, None, "max_turns")
            /\ UNCHANGED <<gu_busy, gu_worker>>
       ELSE IF legal_moves(game, gu_state, _player_to_act) = << >>
         THEN /\ gu_override' = Terminal(TRUE, 1 - _player_to_act, "no_legal_moves")
              /\ UNCHANGED <<gu_busy, gu_worker>>
         ELSE /\ gu_busy' = TRUE
              /\ gu_worker' = [phase |-> "running", session |-> gu_session,
                                player |-> _player_to_act, turn |-> Len(gu_moves) + 1,
                                legal |-> legal_moves(game, gu_state, _player_to_act),
                                out |-> NoOut]
              /\ UNCHANGED gu_override
  /\ UNCHANGED <<gui_outside, gu_plan, gu_mode, gu_session, gu_state, gu_moves,
                 gu_result, gu_closed>>

\* gui.py 950-974: select_move returns or raises in the worker thread, which
\* then posts `done`; in a destroyed window after() fails and nothing is posted
WorkerReturns ==
  /\ gu_worker.phase = "running"
  /\ LET d == decision(gu_plan, gu_worker.turn)
         out == IF d \in ExcTypes THEN [kind |-> "err", move |-> None, type |-> d]
                ELSE [kind |-> "move", move |-> decided_move(d, gu_worker.legal),
                      type |-> ""]
     IN  gu_worker' = IF gu_mode = "closed" THEN NoWorker
                      ELSE [gu_worker EXCEPT !.phase = "posted", !.out = out]
  /\ UNCHANGED <<gui_outside, gu_plan, gu_mode, gu_session, gu_state, gu_moves,
                 gu_result, gu_override, gu_busy, gu_closed>>

\* gui.py 1005-1015: _end_live_with_forfeit
Forfeit(p, reason, note, m) ==
  /\ gu_moves' = Append(gu_moves, MoveRow(Len(gu_moves) + 1, p, m, note))
  /\ gu_override' = Terminal(TRUE, 1 - p, reason)
  /\ UNCHANGED <<gu_state, gu_result>>

\* gui.py 978-992: _apply_live_move; an exception of apply_move leaves the
\* callback with nothing changed
ApplyLive(m) ==
  IF apply_raises(game, gu_state, _player_to_act, m)
    THEN UNCHANGED <<gu_state, gu_moves, gu_result, gu_override>>
    ELSE /\ gu_state' = apply_move(game, gu_state, _player_to_act, m)
         /\ gu_moves' = Append(gu_moves, MoveRow(Len(gu_moves) + 1, _player_to_act, m, ""))
         /\ gu_result' = IF terminal(game, gu_state').is_terminal
                           THEN terminal(game, gu_state') ELSE gu_result
         /\ UNCHANGED gu_override

\* gui.py 961-972: the main loop runs `done`
Done ==
  /\ gu_worker.phase = "posted"
  /\ gu_mode # "closed"
  /\ gu_busy' = FALSE
  /\ gu_worker' = NoWorker
  /\ LET w == gu_worker
     IN  IF w.out.kind = "err"
           THEN Forfeit(w.player,
                        IF w.out.type = "TimeoutError" THEN "timeout" ELSE "agent_error",
                        w.out.type, None)
         ELSE IF ~is_legal(w.out.move, w.legal)
           THEN Forfeit(w.player, "illegal_move", "illegal_move", w.out.move)
         ELSE ApplyLive(w.out.move)
  /\ UNCHANGED <<gui_outside, gu_plan, gu_mode, gu_session, gu_closed>>

\* gui.py 537-542, 512-535: Restart Match
RestartMatch ==
  /\ gu_mode \in {"live", "replay"}
  /\ gu_session < MaxSessions
  /\ gu_closed' = IF gu_mode = "live" THEN gu_closed \cup gui_closable(gu_session)
                  ELSE gu_closed
  /\ gu_mode' = "live"
  /\ gu_session' = gu_session + 1
  /\ gu_state' = initial_state(game)
  /\ gu_moves' = << >>
  /\ gu_result' = NoVerdict
  /\ gu_override' = NoVerdict
  /\ UNCHANGED <<gui_outside, gu_plan, gu_busy, gu_worker>>

\* gui.py 544-582: Load Log on the log play_match has written
LoadLog ==
  /\ gu_mode \in {"live", "replay"}
  /\ gu_session < MaxSessions
  /\ log # << >>
  /\ LET rp == replay_from_log_payload(game, result_json(log[1].result))
     IN  /\ rp.ok
         /\ gu_state' = Last(rp.states)
         /\ gu_moves' = log[1].result.move_history
         /\ gu_result' = IF rp.terminal.is_terminal THEN rp.terminal ELSE NoVerdict
  /\ gu_closed' = IF gu_mode = "live" THEN gu_closed \cup gui_closable(gu_session)
                  ELSE gu_closed
  /\ gu_mode' = "replay"
  /\ gu_session' = gu_session + 1
  /\ gu_override' = NoVerdict
  /\ UNCHANGED <<gui_outside, gu_plan, gu_busy, gu_worker>>

\* gui.py 503-510: the window is closed
OnClose ==
  /\ gu_mode \in {"live", "replay"}
  /\ gu_closed' = IF gu_mode = "live" THEN gu_closed \cup gui_closable(gu_session)
                  ELSE gu_closed
  /\ gu_mode' = "closed"
  /\ UNCHANGED <<gui_outside, gu_plan, gu_session, gu_state, gu_moves, gu_result,
                 gu_override, gu_busy, gu_worker>>

\* play_match runs to its end, then the events of the window in any order
GuiNext ==
  \/ LoopExit
  \/ RulesTerminal
  \/ NoLegalMoves
  \/ CallAgent
  \/ PlanReturns
  \/ PlanRaises
  \/ IllegalMove
  \/ ApplyMove
  \/ pc \in {"done", "raised"} /\ StepLive
  \/ pc \in {"done", "raised"} /\ WorkerReturns
  \/ pc \in {"done", "raised"} /\ Done
  \/ pc \in {"done", "raised"} /\ RestartMatch
  \/ pc \in {"done", "raised"} /\ LoadLog
  \/ pc \in {"done", "raised"} /\ OnClose

GuiSpec == GuiInit /\ [][GuiNext]_vars

\* --------------------------------------- opus/game/gui.py: CalderaApp, play
\* The rules of Caldera are left out: a game is CalderaPlies moves long and
\* the player to move always has a legal move before that.
CalderaPlies == 2

MaxNewGames == 1

AgentKinds == {"human", "random", "opus"}

cal_terminal(ply) == ply >= CalderaPlies

\* gui.py 351-398: what _start_turn leaves behind
start_turn(cfg, ply, over, waiting, lg, gen, timers, workers) ==
  LET same == [over |-> over, waiting |-> waiting, legal |-> lg,
               timers |-> timers, workers |-> workers]
      agent == cfg[(ply % 2) + 1]
  IN  IF over THEN same
      ELSE IF cal_terminal(ply) THEN [same EXCEPT !.over = TRUE]
      ELSE IF agent = "human" THEN [same EXCEPT !.legal = TRUE, !.waiting = TRUE]
      ELSE IF agent = "random"
        THEN [same EXCEPT !.legal = TRUE, !.waiting = FALSE,
                          !.timers = Append(timers, gen)]
      ELSE [same EXCEPT !.legal = TRUE, !.waiting = FALSE,
                        !.workers = Append(workers, [gen |-> gen, phase |-> "running"])]

\* s without its i-th element
Drop(s, i) == SubSeq(s, 1, i - 1) \o SubSeq(s, i + 1, Len(s))

cal_outside ==
  <<engine_vars, replay_vars, wlog_vars, sub_vars, tour_vars, lp_vars, gui_vars>>

\* gui.py 180-214: the window after __init__ in play mode
CalderaInit ==
  /\ EngineIdle
  /\ ReplayIdle
  /\ WlogIdle
  /\ SubIdle
  /\ TourIdle
  /\ LogPathIdle
  /\ GuiIdle
  /\ ca_cfg \in [1..2 -> AgentKinds]
  /\ ca_mode = "play"
  /\ ca_ply = 0
  /\ ca_gen = 0
  /\ ca_closing = FALSE
  /\ ca_games = 0
  /\ ca_last = NoApplied
  /\ LET st == start_turn(ca_cfg, 0, FALSE, FALSE, FALSE, 0, << >>, << >>)
     IN  /\ ca_over = st.over
         /\ ca_waiting = st.waiting
         /\ ca_legal = st.legal
         /\ ca_timers = st.timers
         /\ ca_workers = st.workers

\* gui.py 421-431: _execute_move, with _start_turn at its end
ExecuteMove(waiting, timers, workers) ==
  LET st == start_turn(ca_cfg, ca_ply + 1, ca_over, waiting, ca_legal, ca_gen,
                       timers, workers)
  IN  /\ ca_ply' = ca_ply + 1
      /\ ca_over' = st.over
      /\ ca_waiting' = st.waiting
      /\ ca_legal' = st.legal
      /\ ca_timers' = st.timers
      /\ ca_workers' = st.workers

\* gui.py 458-489: the human player clicks a move; on a finished game
\* apply_move may raise, after _human_waiting was cleared
HumanMove ==
  /\ ca_mode = "play" /\ ca_waiting /\ ca_legal
  /\ \E raises \in (IF cal_terminal(ca_ply) THEN BOOLEAN ELSE {FALSE}) :
       IF raises
         THEN /\ ca_waiting' = FALSE
              /\ UNCHANGED <<ca_ply, ca_over, ca_legal, ca_timers, ca_workers>>
         ELSE ExecuteMove(FALSE, ca_timers, ca_workers)
  /\ UNCHANGED <<cal_outside, ca_cfg, ca_mode, ca_gen, ca_closing, ca_games, ca_last>>

\* gui.py 400-404: a timer of line 387 fires; on a finished game apply_move
\* is handed a move of the state before and may raise
DoRandomMove(i) ==
  /\ ca_mode = "play"
  /\ i \in 1..Len(ca_timers)
  /\ IF ~ca_legal
       THEN /\ ca_timers' = Drop(ca_timers, i)
            /\ UNCHANGED <<ca_ply, ca_over, ca_waiting, ca_legal, ca_workers, ca_last>>
       ELSE \E raises \in (IF cal_terminal(ca_ply) THEN BOOLEAN ELSE {FALSE}) :
              IF raises
                THEN /\ ca_timers' = Drop(ca_timers, i)
                     /\ UNCHANGED <<ca_ply, ca_over, ca_waiting, ca_legal, ca_workers,
                                    ca_last>>
                ELSE /\ ExecuteMove(ca_waiting, Drop(ca_timers, i), ca_workers)
                     /\ ca_last' = [origin |-> ca_timers[i], at |-> ca_gen]
  /\ UNCHANGED <<cal_outside, ca_cfg, ca_mode, ca_gen, ca_closing, ca_games>>

\* gui.py 406-413: select_move returns in the AI thread, which posts the
\* callback; in a destroyed window after() fails
AiWorker(i) ==
  /\ i \in 1..Len(ca_workers)
  /\ ca_workers[i].phase = "running"
  /\ ca_workers' = IF ca_mode = "closed" THEN Drop(ca_workers, i)
                   ELSE [ca_workers EXCEPT ![i].phase = "posted"]
  /\ UNCHANGED <<cal_outside, ca_cfg, ca_mode, ca_ply, ca_over, ca_waiting, ca_legal,
                 ca_gen, ca_closing, ca_games, ca_timers, ca_last>>

\* gui.py 415-419: the main loop runs _ai_move_ready
AiMoveReady(i) ==
  /\ ca_mode = "play"
  /\ i \in 1..Len(ca_workers)
  /\ ca_workers[i].phase = "posted"
  /\ IF ca_closing \/ ca_workers[i].gen # ca_gen
       THEN /\ ca_workers' = Drop(ca_workers, i)
            /\ UNCHANGED <<ca_ply, ca_over, ca_waiting, ca_legal, ca_timers, ca_last>>
       ELSE /\ ExecuteMove(ca_waiting, ca_timers, Drop(ca_workers, i))
            /\ ca_last' = [origin |-> ca_workers[i].gen, at |-> ca_gen]
  /\ UNCHANGED <<cal_outside, ca_cfg, ca_mode, ca_gen, ca_closing, ca_games>>

\* gui.py 647-661: New Game
NewGame ==
  /\ ca_mode = "play"
  /\ ca_games < MaxNewGames
  /\ ca_games' = ca_games + 1
  /\ ca_gen' = ca_gen + 1
  /\ ca_ply' = 0
  /\ LET st == start_turn(ca_cfg, 0, FALSE, FALSE, FALSE, ca_gen', ca_timers, ca_workers)
     IN  /\ ca_over' = st.over
         /\ ca_waiting' = st.waiting
         /\ ca_legal' = st.legal
         /\ ca_timers' = st.timers
         /\ ca_workers' = st.workers
  /\ UNCHANGED <<cal_outside, ca_cfg, ca_mode, ca_closing, ca_last>>

\* gui.py 668-674: the window is closed; destroy() drops what the main loop
\* has pending
CalderaClose ==
  /\ ca_mode = "play"
  /\ ca_closing' = TRUE
  /\ ca_gen' = ca_gen + 1
  /\ ca_mode' = "closed"
  /\ ca_timers' = << >>
  /\ ca_workers' = SelectSeq(ca_workers, LAMBDA w : w.phase = "running")
  /\ UNCHANGED <<cal_outside, ca_cfg, ca_ply, ca_over, ca_waiting, ca_legal, ca_games,
                 ca_last>>

CalderaNext ==
  \/ HumanMove
  \/ \E i \in 1..Len(ca_timers) : DoRandomMove(i)
  \/ \E i \in 1..Len(ca_workers) : AiWorker(i)
  \/ \E i \in 1..Len(ca_workers) : AiMoveReady(i)
  \/ NewGame
  \/ CalderaClose

CalderaSpec == CalderaInit /\ [][CalderaNext]_vars

\* --------------------------------------------------------------- claims
\* C1: when select_move raises on turn t for player p, play_match does not
\* let the exception out: it returns winner 1-p, reason "agent_error",
\* turns t, with a last record (t, p, note "agent_error").
C1_AgentErrorForfeits ==
  exc.type = "RuntimeError" =>
    /\ pc = "done"
    /\ result.winner = 1 - exc.player
    /\ result.reason = "agent_error"
    /\ result.turns = exc.turn
    /\ result.move_history # << >>
    /\ Last(result.move_history).turn = exc.turn
    /\ Last(result.move_history).player = exc.player
    /\ Last(result.move_history).note = "agent_error"

\* C2: a returned move that equals no element of legal_moves(state, p) ends
\* the match at once: winner 1-p, reason "illegal_move", turns t, the last
\* record carries the move with note "illegal_move", and the state stays the
\* state before the turn.
C2_IllegalMoveForfeits ==
  [][(pc = "validate" /\ move \notin Range(legal_moves(game, state, player))) =>
       /\ pc' = "done"
       /\ result'.winner = 1 - player
       /\ result'.reason = "illegal_move"
       /\ result'.turns = turn
       /\ result'.move_history = Append(history, MoveRecord(turn, player, move, "illegal_move"))
       /\ state' = state
       /\ state' = StateAt(game, history, turn - 1)]_vars

C2_Witness ==
  /\ pc = "done"
  /\ game.name = "tictactoe"
  /\ result.reason = "illegal_move"
  /\ result.turns = 3
  /\ Last(result.move_history).move = 0

\* C3: when select_move raises a timeout error on turn t for player p, the
\* match ends with winner 1-p, reason "timeout", turns t and a last record
\* with note "timeout".
C3_TimeoutForfeits ==
  exc.type = "TimeoutError" =>
    /\ pc = "done"
    /\ result.winner = 1 - exc.player
    /\ result.reason = "timeout"
    /\ result.turns = exc.turn
    /\ result.move_history # << >>
    /\ Last(result.move_history).note = "timeout"

\* C4: every record without a note holds a move that is an element of
\* legal_moves(S_i, player_i), and the engine's state is exactly the
\* trajectory of those records: nothing else was ever applied.
C4_Legality ==
  /\ \A i \in 1..Len(history) :
       history[i].note = "" =>
         history[i].move \in
           Range(legal_moves(game, StateAt(game, history, i - 1), history[i].player))
  /\ state = StateAt(game, history, Len(history))
  /\ pc = "done" => result.move_history = history

C4_Witness ==
  /\ pc = "done"
  /\ game.name = "tictactoe"
  /\ result.reason = "draw"
  /\ Len(result.move_history) = 9

\* C5: in a returned result, record number i (0-based) has player i mod 2 and
\* turn i + 1, the forfeit record included.
C5_Alternation ==
  pc = "done" =>
    \A i \in 1..Len(result.move_history) :
      /\ result.move_history[i].player = (i - 1) % 2
      /\ result.move_history[i].turn = i

C5_Witness ==
  /\ pc = "done"
  /\ Len(result.move_history) = 4
  /\ Last(result.move_history).note = "illegal_move"

\* C6: in a returned result a record with a note is the last one and the
\* result's reason is that note; the records before it have no note and the
\* final state is the initial state with exactly those records applied.
C6_ForfeitTerminality ==
  pc = "done" =>
    LET h == result.move_history
    IN  /\ \A i \in 1..Len(h) :
             h[i].note # "" => (i = Len(h) /\ result.reason = h[i].note)
        /\ \A i \in 1..(Len(h) - 1) : h[i].note = ""
        /\ state = StateAt(game, h, Len(h))

C6_Witness ==
  /\ pc = "done"
  /\ Len(result.move_history) >= 2
  /\ Last(result.move_history).note = "illegal_move"
  /\ result.reason = "illegal_move"

\* C7: for max_turns >= 0 a returned result has turns = number of records:
\* turn-1 for a rules-terminal and for no_legal_moves, turn for an illegal
\* move, max_turns for the cap.
C7_TurnsCountRecords ==
  (pc = "done" /\ max_turns >= 0) =>
    /\ result.turns = Len(result.move_history)
    /\ result.reason = "max_turns" => result.turns = max_turns
    /\ result.reason = "illegal_move" => result.turns = turn
    /\ result.reason \notin {"max_turns", "illegal_move"} => result.turns = turn - 1

C7_Witness ==
  /\ pc = "done"
  /\ result.reason = "max_turns"
  /\ max_turns = 2
  /\ Len(result.move_history) = 2

\* C8: reason "max_turns" is returned only if max_turns moves were applied
\* and the final state is not rules-terminal; whenever the final state is
\* rules-terminal the result carries the game's own winner and reason.
\* Stated for the matches in which at least one move was played.
C8_MaxTurnsOnlyWithoutTerminal ==
  (pc = "done" /\ history # << >>) =>
    LET t == terminal(game, state)
    IN  /\ result.reason = "max_turns" =>
             (Len(result.move_history) = max_turns /\ ~t.is_terminal)
        /\ t.is_terminal =>
             (result.winner = t.winner /\ result.reason = t.reason)

\* C9: a state that is terminal at the start of a turn t <= max_turns ends the
\* match with the game's winner and reason and turns t-1, with no call of
\* legal_moves and no call of an agent.
C9_RulesTerminalPassThrough ==
  [][(pc = "loop" /\ turn <= max_turns /\ terminal(game, state).is_terminal) =>
       /\ pc' = "done"
       /\ result'.winner = terminal(game, state).winner
       /\ result'.reason = terminal(game, state).reason
       /\ result'.turns = turn - 1
       /\ calls' = calls
       /\ legal_calls' = legal_calls]_vars

C9_Witness ==
  /\ pc = "done"
  /\ result.reason = "crown_captured"
  /\ result.winner = 1
  /\ result.turns = 2
  /\ legal_calls = 2

\* C10: a non-terminal state in which the player to move has no legal move
\* ends the match with winner 1-p, reason "no_legal_moves", turns t-1; no
\* agent is called and no record is appended.
C10_NoLegalMovesForfeit ==
  [][(/\ pc = "loop"
      /\ turn <= max_turns
      /\ ~terminal(game, state).is_terminal
      /\ legal_moves(game, state, player) = << >>) =>
       /\ pc' = "done"
       /\ result'.winner = 1 - player
       /\ result'.reason = "no_legal_moves"
       /\ result'.turns = turn - 1
       /\ result'.move_history = history
       /\ history' = history
       /\ calls' = calls]_vars

C10_Witness ==
  /\ pc = "done"
  /\ result.reason = "no_legal_moves"
  /\ result.winner = 1
  /\ result.turns = 2
  /\ Len(calls) = 2

\* C11: select_move number t is entered only when t-1 moves have been
\* applied and none forfeited; it goes to agent0 for odd t and agent1 for
\* even t, with the state of those t-1 moves, the player (t-1) mod 2 and
\* legal_moves of that state and player; once a result or an exception has
\* ended the match no select_move is entered.
C11_SequentialDecisions ==
  [][/\ calls' # calls =>
          LET c == calls'[Len(calls')]
          IN  /\ calls' = Append(calls, c)
              /\ c.turn = Len(calls) + 1
              /\ Len(history) = c.turn - 1
              /\ \A j \in 1..Len(history) : history[j].note = ""
              /\ c.agent = (c.turn - 1) % 2
              /\ c.player = (c.turn - 1) % 2
              /\ c.state = StateAt(game, history, c.turn - 1)
              /\ c.legal = legal_moves(game, c.state, c.player)
              /\ result = NoResult
              /\ exc = NoExc
     /\ (result # NoResult \/ exc # NoExc) => calls' = calls]_vars

C11_Witness ==
  /\ pc = "select"
  /\ game.name = "tictactoe"
  /\ Len(calls) = 4
  /\ calls[4].agent = 1
  /\ calls[3].agent = 0

\* C12: with a log path, every match that ends (by a returned result or by
\* an agent's exception or timeout) has written the log exactly once, after
\* the last record, holding the returned result and the final state.
C12_LogWrittenOnce ==
  (log_path /\ (pc = "done" \/ (pc = "raised" /\ exc.type \in ExcTypes))) =>
    /\ Len(log) = 1
    /\ log[1].result.move_history = history
    /\ log[1].final_state = state
    /\ pc = "done" => log[1].result = result

\* C14: replaying a log payload written by play_match, with at least one
\* record, ends in the logged final_state and yields a verdict with the
\* logged winner and reason.
C14_LogRoundTrip ==
  \A i \in 1..Len(log) :
    log[i].result.move_history # << >> =>
      LET rp == replay_from_log_payload(game, result_json(log[i].result))
      IN  /\ rp.ok
          /\ Last(rp.states) = log[i].final_state
          /\ rp.terminal.winner = log[i].result.winner
          /\ rp.terminal.reason = log[i].result.reason

\* index of the first record with a note, 0 if there is none
FirstNoted(mh) ==
  IF \E i \in 1..Len(mh) : mh[i].note # ""
  THEN CHOOSE i \in 1..Len(mh) :
         mh[i].note # "" /\ \A j \in 1..(i - 1) : mh[j].note = ""
  ELSE 0

\* C15: replay_from_move_history starts from initial_state, appends
\* apply_move for every record up to the first note, appends one unchanged
\* frame for the first noted record and reads no record after it; a history
\* of n records noted at most on the last one gives n + 1 states.
C15_ReplayStates ==
  rp_pc = "history_done" =>
    LET mh == rp_payload.move_history
        st == rp_out.states
        k  == FirstNoted(mh)
        n  == IF k = 0 THEN Len(mh) ELSE k - 1
    IN  /\ st[1] = initial_state(rp_game)
        /\ \A i \in 1..n :
             st[i + 1] = apply_move(rp_game, st[i], mh[i].player, mh[i].move)
        /\ k = 0 => Len(st) = Len(mh) + 1
        /\ k # 0 => (Len(st) = k + 1 /\ st[k + 1] = st[k])
        /\ k \in {0, Len(mh)} => Len(st) = Len(mh) + 1
        /\ rp_out.terminal = terminal(rp_game, st[Len(st)])

C15_Witness ==
  /\ rp_pc = "history_done"
  /\ Len(rp_payload.move_history) = 3
  /\ rp_payload.move_history[2].note = "illegal_move"
  /\ Len(rp_out.states) = 3
  /\ rp_out.states[3] = rp_out.states[2]
  /\ rp_out.states[2] # rp_out.states[1]

\* C16: replay_from_log_payload returns the game's verdict when the last
\* replayed state is terminal; else, for a non-empty string reason, the
\* verdict (terminal, winner if 0 or 1 else none, reason); else, for an empty
\* or missing reason, the game's non-terminal verdict.
C16_ReplayVerdict ==
  rp_pc = "payload_done" =>
    LET gt == terminal(rp_game, Last(rp_out.states))
        r  == rp_payload.reason
        w  == rp_payload.winner
    IN  /\ gt.is_terminal => rp_out.terminal = gt
        /\ (~gt.is_terminal /\ r.t = "str" /\ r.s # "") =>
             rp_out.terminal =
               Terminal(TRUE, IF w \in {JInt(0), JInt(1)} THEN w.n ELSE None, r.s)
        /\ (~gt.is_terminal /\ (r.t = "missing" \/ r = JStr(""))) =>
             rp_out.terminal = gt

C16_Witness ==
  /\ rp_pc = "payload_done"
  /\ rp_payload.winner = JInt(2)
  /\ rp_payload.reason = JStr("illegal_move")
  /\ rp_out.terminal = Terminal(TRUE, None, "illegal_move")
  /\ Len(rp_out.states) = 3

\* C13: a reader of log_path never sees part of a document: the path is
\* absent, or holds its previous content, or holds the complete document.
C13_LogAtomic ==
  wl_seen = FileAbsent \/ wl_seen.have = wl_seen.of

\* the child has answered the turn message with a move line, and none but
\* ignorable lines stand before that line
Answered(i) ==
  /\ i \in (sa_stale + 1)..Len(sa_out)
  /\ sa_sent = 1
  /\ sa_out[i].k = "move"
  /\ \A j \in 1..(i - 1) : sa_out[j].k \in Ignorable

\* C17: one call of select_move writes exactly one turn message, and when the
\* child has answered in time with a move line that only ignorable lines
\* (blank, no JSON, no object, another type) precede, the call returns the
\* move of that line: the ignorable lines neither make it raise nor change
\* what it returns.
C17_FirstMoveReturned ==
  /\ (InCall \/ sa_pc = "returned") => sa_sent = 1
  /\ \A i \in 1..Len(sa_out) :
       (Ended /\ Answered(i)) => (sa_pc = "returned" /\ sa_ret = Returned(sa_out[i].m))

\* C18: the deadline of a turn is a hard wall: as long as the call has not
\* returned or raised, the clock is not past the deadline, whatever the child
\* does, and no single wait reaches beyond the deadline.
C18_HardDeadline ==
  /\ InCall => sa_now <= sa_deadline
  /\ sa_pc = "select" => sa_wait <= sa_deadline

\* C19: when the child has exited before the call, exits before it has written
\* a move line, or has closed its stdin, select_move raises a failure that is
\* no timeout, returns no move, and does so as soon as the child has failed,
\* without waiting for the deadline.
C19_ChildFailureRaises ==
  /\ (InCall /\ sa_eof) => sa_now = sa_exit_at
  /\ ( /\ Ended /\ sa_close_pc = "idle"
       /\ \A i \in 1..Len(sa_out) : sa_out[i].k # "move"
       /\ \/ sa_stdin = "closed"
          \/ sa_proc = "exited" /\ (sa_sent = 0 \/ sa_exit_at < sa_deadline) )
     => /\ sa_pc = "raised"
        /\ sa_ret.kind = "exc"
        /\ sa_ret.type \in {"RuntimeError", "BrokenPipeError", "ValueError"}
        /\ sa_now = (IF sa_sent = 0 THEN 0 ELSE sa_exit_at)

\* a child that exits in the middle of the call, after a line that is no move
C19_Witness ==
  /\ sa_pc = "raised"
  /\ sa_ret.type = "RuntimeError"
  /\ sa_proc = "exited"
  /\ sa_sent = 1
  /\ sa_out # << >>
  /\ sa_now > 0

\* C20: no step of select_move sends the child a signal or ends it, the step
\* that raises TimeoutError included; the transport sends signals only inside
\* close(), and the child is killed only by such a signal.
C20_OnlyCloseTerminates ==
  [][ /\ (sa_pc' # sa_pc \/ sa_buf' # sa_buf)
         => (sa_signals' = sa_signals /\ sa_proc' = sa_proc)
      /\ sa_signals' # sa_signals
         => (sa_close_pc \in {"idle", "wait", "done"} /\ sa_close_pc' # sa_close_pc)
      /\ (sa_proc = "running" /\ sa_proc' = "killed") => sa_signals # << >>
    ]_vars

\* the call has run into its deadline and the child is running, unsignalled
C20_Witness ==
  /\ sa_pc = "raised"
  /\ sa_ret.type = "TimeoutError"
  /\ sa_proc = "running"
  /\ sa_signals = << >>
  /\ sa_close_pc = "idle"

\* C21: close() on a running child asks it to terminate first and kills it
\* only after that, waits no longer than the grace period, and when it has
\* returned the child is no longer running and its exit status has been
\* collected, even if the child did not end on the request.
C21_CloseReaps ==
  /\ \A i \in 1..Len(sa_signals) :
       sa_signals[i] = "KILL" => (i > 1 /\ sa_signals[i - 1] = "TERM")
  /\ sa_close_pc = "wait" => sa_now <= sa_grace_end
  /\ (sa_closes >= 1 /\ sa_close_pc = "done")
       => (sa_proc # "running" /\ sa_reaped)

\* C22: close() is idempotent: no call of it raises, and after two or more
\* calls the agent is as the first call left it: the selector closed and the
\* child's exit status collected or not, as after the first call.
C22_CloseIdempotent ==
  /\ ~sa_close_exc
  /\ (sa_closes >= 2 /\ sa_close_pc = "done")
       => sa_first = [reaped |-> sa_reaped, sel_open |-> sa_sel_open, set |-> TRUE]

\* C23: the child is never blocked in a write to its stderr, however much
\* it writes there: the transport keeps the pipe drained.
C23_StderrDrained == ~sa_stuck

\* ---- the enumeration of matches in closed form: match k of a tournament
NComp == Len(t_comps)

NSeats == IF t_swap THEN 2 ELSE 1

PerScen == t_rounds * NSeats

PerPair == 3 * PerScen

\* the q-th pair of positions i < j, ordered by i and then by j
ExpPair(q) ==
  CHOOSE pr \in (1..NComp) \X (1..NComp) :
    /\ pr[1] < pr[2]
    /\ q = 1 + Cardinality({ o \in (1..NComp) \X (1..NComp) :
                               /\ o[1] < o[2]
                               /\ o[1] < pr[1] \/ (o[1] = pr[1] /\ o[2] < pr[2]) })

ExpA(k) == t_comps[ExpPair(((k - 1) \div PerPair) + 1)[1]]

ExpB(k) == t_comps[ExpPair(((k - 1) \div PerPair) + 1)[2]]

ExpScen(k) == (((k - 1) % PerPair) \div PerScen) + 1

ExpRound(k) == ((k - 1) % PerScen) \div NSeats

ExpSeat(k) == ((k - 1) % NSeats) + 1

ExpCount == ((NComp * (NComp - 1)) \div 2) * 3 * t_rounds * NSeats

C25_Seating ==
  LET k == Len(t_matches)
  IN  /\ k > 0 =>
           LET m == t_matches[k]
               c == t_calls[k]
               a == ExpA(k)
               b == ExpB(k)
               nominal == <<a.id, b.id, IF a.id < b.id THEN a.id ELSE b.id>>[ExpScen(k)]
           IN  /\ {m.p0, m.p1} = {a.id, b.id}
               /\ m.p0 # m.p1
               /\ m.p0 = IF ExpSeat(k) = 1 THEN nominal
                         ELSE IF nominal = a.id THEN b.id ELSE a.id
               /\ c.agent0.spec = AgentSpecOf(m.p0)
               /\ c.agent1.spec = AgentSpecOf(m.p1)
               /\ m.game = <<a.home_game, b.home_game, neutral_game>>[ExpScen(k)]
               /\ c.game = m.game
      /\ t_pc \in {"close0", "close1", "record"}
           => (Last(t_calls).agent0 = t_agent0 /\ Last(t_calls).agent1 = t_agent1)

\* two competitors configured with the larger id first, both seatings played
C25_Witness ==
  /\ t_pc = "done"
  /\ NComp = 2 /\ t_comps[1].id > t_comps[2].id
  /\ t_swap /\ t_rounds = 1
  /\ Len(t_matches) = 6
  /\ t_matches[5].context = Neutral
  /\ t_matches[5].p0 = t_comps[2].id

\* the row of a competitor after a match that seat w has won (None: a draw)
RowAfter(row, id, w, seat0, seat1) ==
  IF w = None
    THEN IF id \in {seat0, seat1}
           THEN [row EXCEPT !.draws = @ + 1, !.points = @ + 1]
           ELSE row
    ELSE LET won == IF w = 0 THEN seat0 ELSE seat1
             lost == IF w = 0 THEN seat1 ELSE seat0
         IN  IF id = won THEN [row EXCEPT !.wins = @ + 1, !.points = @ + 3]
             ELSE IF id = lost THEN [row EXCEPT !.losses = @ + 1]
             ELSE row

\* C26: a match changes the scoreboard in this way and no other: the
\* competitor in the winning seat gets a win and three points, the other one
\* a loss; in a draw both get a draw and one point; every other row stays;
\* the summary names the competitor in the winning seat as winner.  Between
\* matches the scoreboard does not change.
C26_ScoreUpdate ==
  [][ IF Len(t_matches') = Len(t_matches) + 1
        THEN LET m == Last(t_matches')
                 w == t_res.winner
                 seat0 == Last(t_calls).agent0.spec.cmd
                 seat1 == Last(t_calls).agent1.spec.cmd
             IN  /\ m.winner = IF w = None THEN None
                               ELSE IF w = 0 THEN seat0 ELSE seat1
                 /\ DOMAIN t_sb' = DOMAIN t_sb
                 /\ \A id \in DOMAIN t_sb :
                      t_sb'[id] = RowAfter(t_sb[id], id, w, seat0, seat1)
        ELSE t_pc # "start" => (t_sb' = t_sb /\ t_matches' = t_matches)
    ]_vars

\* the second seat has won a match
C26_Witness ==
  /\ t_matches # << >>
  /\ Last(t_matches).winner = Last(t_matches).p1
  /\ t_res.winner = 1
  /\ t_sb[Last(t_matches).p1].points >= 3
  /\ t_sb[Last(t_matches).p0].losses >= 1

RECURSIVE SumOver(_, _, _)
SumOver(sb, ids, field) ==
  IF ids = {} THEN 0
  ELSE LET id == CHOOSE x \in ids : TRUE
       IN  sb[id][field] + SumOver(sb, ids \ {id}, field)

Total(field) == SumOver(t_sb, DOMAIN t_sb, field)

Drawn == Cardinality({ k \in 1..Len(t_matches) : t_matches[k].winner = None })

\* C27: after every match the rows of the scoreboard add up: wins, losses and
\* draws to twice the number of matches, wins to as many as losses, points to
\* three per decided match and two per drawn one.
C27_Conservation ==
  t_pc \notin {"idle", "start"} =>
    /\ Total("wins") + Total("losses") + Total("draws") = 2 * Len(t_matches)
    /\ Total("wins") = Total("losses")
    /\ Total("points") = 3 * (Len(t_matches) - Drawn) + 2 * Drawn

\* a finished tournament with a drawn and a decided match
C27_Witness ==
  /\ t_pc = "done"
  /\ Drawn > 0
  /\ Drawn < Len(t_matches)
  /\ Total("points") > 0

\* C28: when run_tournament has returned or raised, close() has been called
\* on every agent that was built and has one.
C28_AgentsClosed == t_pc \in {"done", "raised"} => t_live = {}

\* C29: the failure of an agent in a match does not end the tournament:
\* run_tournament does not raise because of it.
C29_FailureIsolated == ~(t_pc = "raised" /\ t_exc = "agent")

\* C30: matches run one after another on agents of their own: never more
\* than two agents are open, the open ones were built for the match at hand,
\* none is open when the agents of the next match are built, and the agents
\* play_match is called with were built for that match and for no other.
C30_OneMatchAtATime ==
  LET cur == Len(t_matches) + 1
  IN  /\ Cardinality(t_live) <= 2
      /\ t_pc = "build0" => t_live = {}
      /\ \A n \in t_live :
           \/ n = t_agent0.n /\ t_agent0.match = cur
           \/ n = t_agent1.n /\ t_agent1.match = cur
      /\ t_calls # << >> =>
           LET c == Last(t_calls)
           IN  /\ c.agent0.n # c.agent1.n
               /\ c.agent0.match = Len(t_calls)
               /\ c.agent1.match = Len(t_calls)
               /\ \A i \in 1..(Len(t_calls) - 1) :
                    {t_calls[i].agent0.n, t_calls[i].agent1.n}
                      \cap {c.agent0.n, c.agent1.n} = {}

\* the agents of a second match are about to be built, those of the first
\* one, which had a close(), are closed
C30_Witness ==
  /\ t_pc = "build0"
  /\ Len(t_matches) >= 1
  /\ t_agent0.close /\ t_agent1.close
  /\ t_live = {}


\* ------------------------------------------- Tic-Tac-Toe, default max_turns
\* The default max_turns is 10_000; a Tic-Tac-Toe match never reaches its
\* tenth iteration's select_move, so every max_turns >= 10 runs as the default.
DefaultLike == max_turns >= 10

\* C31: Tic-Tac-Toe with the default turn cap and agents that only return
\* legal moves: play_match ends (never beyond iteration 10, never by an
\* exception of its own) with reason "win" or "draw" and 1 <= turns <= 9, no
\* record carries a note, and the replayed move history has turns + 1 states.
C31_TicTacToeDefault ==
  (game = TicTacToe /\ DefaultLike) =>
    /\ turn <= 10
    /\ pc = "raised" => exc.type \in ExcTypes
    /\ (pc = "done" /\ result.reason # "illegal_move") =>
         /\ result.reason \in {"win", "draw"}
         /\ 1 <= result.turns /\ result.turns <= 9
         /\ \A i \in 1..Len(result.move_history) : result.move_history[i].note = ""
         /\ LET rep == replay_from_move_history(game, result.move_history)
            IN  rep.ok /\ Len(rep.states) = result.turns + 1

C31_Witness ==
  /\ game = TicTacToe /\ DefaultLike /\ pc = "done"
  /\ result.reason = "draw" /\ result.turns = 9

\* ------------------------------------------------- engine.py 111-121
\* C35: the prime-turn pause never fires on a turn played by a subprocess
\* agent, whatever prime_pause is: play_match is never waiting for the
\* operator after a move of the subprocess agent.
C35_NoPauseOnSubprocessTurn ==
  pc = "pause" => agent_kind(seat_agent(player)) # "subprocess"

\* ------------------------------------- subprocess_agent.py 36-41, 81-109
\* C38: a whole line the reader already holds in its buffer is processed
\* without waiting for the pipe to become ready again: select_move never sits
\* in select on an empty pipe while such a line is buffered, and never raises
\* TimeoutError with a whole line left unread in the buffer (a burst of
\* ignorable lines and a move line in one write yields the move).
C38_BufferedLineProcessed ==
  /\ (sa_pc = "select" /\ Buffered) => Readable
  /\ (sa_pc = "raised" /\ sa_ret = Raised("TimeoutError")) => ~Buffered

\* lines of the child that readline has handed to select_move so far
Consumed == Len(sa_out) - Len(sa_pipe) - Len(sa_buf)

\* C32: a turn request resolves as moved, errored or timed out, and a line
\* {"type": "error", "error": ...} of the bot resolves it as errored: once
\* select_move has read such a line (with none but other ignorable lines
\* before it) the call has raised, and what it raised is no timeout.
C32_ErrorLineRaises ==
  \A i \in (sa_stale + 1)..Consumed :
    ( /\ sa_out[i].k = "error"
      /\ \A j \in 1..(i - 1) : sa_out[j].k \in Ignorable \ {"error"} )
    => /\ sa_pc = "raised"
       /\ sa_ret.kind = "exc"
       /\ sa_ret.type # "TimeoutError"

\* C37: the move select_move returns was written by the child after the turn
\* message of this call was sent: a move line written before it (a late
\* answer to an earlier turn message, or a second move line for one turn) is
\* never what the call returns.
C37_NoStaleMove ==
  sa_pc = "returned" => Consumed > sa_stale

\* C36: with a log_dir and distinct ids, two different matches of one
\* tournament never get the same log path, whatever the id strings are, ids
\* with "_", "_vs_" or "_r0_" in them included.
C36_LogPathsDistinct ==
  \A i \in 1..Len(lp_files) : \A j \in 1..Len(lp_files) :
    i # j => lp_files[i] # lp_files[j]

\* ------------------------------------------------------- gui.py: ArenaApp
\* C33: the callback of a select_move worker started in one live match is
\* never applied to another session: when `done` runs after Restart Match or
\* Load Log it leaves the moves, the state and the verdict of the session on
\* screen alone (and after the window is closed it does not run at all).
C33_StaleCallbackDiscarded ==
  [][ ( /\ gu_worker.phase = "posted"
        /\ gu_worker'.phase = "none"
        /\ gu_worker.session # gu_session )
      => ( /\ gu_moves' = gu_moves
           /\ gu_state' = gu_state
           /\ gu_result' = gu_result
           /\ gu_override' = gu_override )
    ]_vars

\* C39: close() of an agent is never executed while select_move is in
\* progress on that agent in the worker thread: no agent that Restart Match,
\* Load Log or closing the window has closed is inside select_move.
C39_NoCloseDuringSelect ==
  gu_worker.phase = "running" =>
    gui_agent(gu_worker.session, gu_worker.player) \notin gu_closed

\* C40: live play in the window and play_match implement the same match
\* rules: for the same game, max_turns >= 1 and agent decisions, once the
\* first live match of the window is over and play_match has returned, winner
\* and reason agree and as many moves are recorded, also when the game ends
\* on move number max_turns and when the turn cap is reached.
C40_GuiMatchesEngine ==
  ( /\ gu_mode = "live" /\ gu_session = 0 /\ ~gu_busy
    /\ _is_match_over
    /\ pc = "done"
    /\ max_turns >= 1 )
  => /\ _current_terminal.winner = result.winner
     /\ _current_terminal.reason = result.reason
     /\ Len(gu_moves) = Len(result.move_history)

\* ------------------------------------------- opus/game/gui.py: CalderaApp
\* C34: after New Game (and after the window is closed) no callback of the
\* game before, the result of an AI thread or a pending 300 ms random-move
\* timer, applies a move to the new game: every move a callback has applied
\* was applied in the generation the callback was scheduled in.
C34_NoStaleCallbackMove ==
  ca_last.origin = ca_last.at

====
